---- MODULE Spec2Model ----
(***************************************************************************)
(* Session layer of the Pokemon bot bridge: NetworkManager (network.py)    *)
(* driven by PokemonEnvironment.step (pokemon_environment.py), with the    *)
(* SIGINT handler of network.py running asynchronously.                    *)
(*                                                                         *)
(* The single thread of control is followed by pc; the signal handler may  *)
(* run between any two steps of it.  Every blocking socket call (accept,   *)
(* recv, sendall) is one step whose outcome is chosen by the environment.  *)
(*                                                                         *)
(* Scaling.  Bytes are integers.  The peer's header bytes are drawn from   *)
(* Byte = the three tag bytes and 0, so that a little-endian length field  *)
(* whose upper bytes are 0 declares 0 (below the floor of 20), 50 (above   *)
(* the floor, too short to decode), 68 (exactly one image) or 71 (an image *)
(* with a 3-byte prefix); the image is scaled to 1 x 17 pixels (68 bytes). *)
(* Payload bytes are all 0: the session layer never looks at them.  The    *)
(* synchronisation constants recv(1024), 2048 and 2,000,000 are scaled to  *)
(* SyncRecvSize, SearchTrim and max_search_bytes; the scaling keeps        *)
(* 2 + SyncRecvSize < 7 + RAW_IMAGE_SIZE (1026 < 393223 in the code).      *)
(*                                                                         *)
(* Engines.  The reward system and the loop detector are followed by the   *)
(* fields that outlive a call and by the terms of the reward of the last   *)
(* step, in units of 0.01 (float rounding is not followed).  A frame is    *)
(* seen through its two hashes, its menu and battle verdicts and its       *)
(* distance from the frame before.  Window sizes, the loop and idle        *)
(* thresholds and the escalation cap are scaled; the escalation is counted *)
(* in units of 0.05.  Spec follows step statement by statement on all-zero *)
(* frames; EngineSpec follows the environment call by call (step, reset)   *)
(* on frames of the overworld and of menus, LoopSpec on repeating frames,  *)
(* BattleSpec on battle-like frames, ScenarioSpec on a scripted run;       *)
(* CodecSpec applies the decoder and the action encoder to their inputs.   *)
(* HandleSpec is Spec with an accepted socket whose configuration may      *)
(* raise; MovementSpec calls the two stall-tracking methods of the loop    *)
(* detector, which the environment does not call; ReplaySpec records a     *)
(* run and feeds it again after reset; ReadSpec runs the exact read of     *)
(* main.py and that of network.py on the same socket events.  The menu and *)
(* stall stages are scaled to 1, 2, 3.                                     *)
(***************************************************************************)
EXTENDS Integers, Sequences, FiniteSets, TLC

\* ---- bounds of the model --------------------------------------------------
MaxConns == 2          \* connections the peer opens in one run
MaxFrames == 2         \* frames delivered as observations in one run
MaxFailures == 21      \* consecutive failed steps the caller keeps calling after
MaxPrefix == 3         \* payload bytes the peer sends beyond one image
SyncRecvSize == 3      \* recv(1024) of the synchronisation scan, scaled
SearchTrim == 3        \* the 2048-byte trim threshold of the scan, scaled
max_search_bytes == 5  \* the 2,000,000-byte search bound, scaled
MaxEngineSteps == 5    \* steps of one run of the engines taken alone
MaxStall == 4          \* updates of the stall counter without a movement
MaxReplaySteps == 5    \* steps of an environment before its reset
MaxRead == 3           \* bytes asked of an exact read taken alone
MaxLoopSteps == 7      \* steps of one run of the loop detector on repeating frames
IdenticalFrames == 5   \* frames of the scripted run that equal the first
ScenarioFrames == 10   \* frames of the scripted run

\* ---- program constants ----------------------------------------------------
IMAGE_WIDTH == 1       \* 256 columns, scaled
IMAGE_HEIGHT == 17     \* 384 rows, scaled
BYTES_PER_PIXEL == 4
MAX_CONNECTION_ATTEMPTS == 10
MAX_SEND_ATTEMPTS == 3
MIN_GD2_LENGTH == 20
max_consecutive_failures == 20

FRAME_HISTORY_SIZE == 4        \* 20 frame hashes, scaled
LOOP_DETECTION_WINDOW == 4     \* 8 frames, scaled
ACTION_HISTORY_SIZE == 2       \* 15 actions, scaled
ACTION_LOOP_THRESHOLD == 2     \* 4 identical actions, scaled
MAX_CONSECUTIVE_LOOPS == 1     \* 3 detections in a row, scaled
LOOP_GRACE_FRAMES == 1         \* the grace period of 50 frames, scaled
VISUAL_REPEATS == 3
ESCALATION_RAISE == 2          \* 0.1, in units of 0.05
ESCALATION_DECAY == 1          \* 0.05, in units of 0.05
ESCALATION_MAX == 3            \* 1.0, scaled to 0.15, in units of 0.05
MAX_STEPS_STILL == 4           \* 150 steps, scaled
IDLE_SECOND_STAGE == 3         \* self._max_steps_still + 100, scaled
TOP_SCREEN_HEIGHT == 8         \* 192 of 384 rows, scaled
NUM_BUTTONS == 12
NUM_ACTIONS == 13

RAW_IMAGE_SIZE == IMAGE_WIDTH * IMAGE_HEIGHT * BYTES_PER_PIXEL

GD2 == <<71, 68, 50>>

Byte == {0, 50, 68, 71}

PayloadByte == {0}

MaxPayload == RAW_IMAGE_SIZE + MaxPrefix

ActionInputs == {0, 1}

\* step's argument in the runs that follow the session statement by statement:
\* the session layer passes the encoded action on without looking at it
SessionActions == {1}

\* one recv(1024) of the scan bringing a whole frame header that declares the
\* length 0, and one byte more
HeaderBurst == GD2 \o <<0, 0, 0, 0>> \o <<0>>

\* ---- helpers --------------------------------------------------------------
Min(a, b) == IF a < b THEN a ELSE b

Chunks(alphabet, maxlen) == UNION {[1..k -> alphabet] : k \in 1..maxlen}

Take(s, k) == SubSeq(s, 1, k)

Drop(s, k) == SubSeq(s, k + 1, Len(s))

\* whether s is the tail of t
IsSuffix(s, t) == Len(s) <= Len(t) /\ SubSeq(t, Len(t) - Len(s) + 1, Len(t)) = s

\* bytes.find(b'GD2'): the lowest index (0-based) of the tag, -1 if absent
Find(s, pat) ==
  LET hits == {i \in 1..(Len(s) - Len(pat) + 1) : SubSeq(s, i, i + Len(pat) - 1) = pat}
  IN  IF hits = {} THEN -1 ELSE (CHOOSE i \in hits : \A j \in hits : i <= j) - 1

\* struct.unpack("<I", b)[0]; every byte of the model is below 128, so the
\* value stays below 2^31
UnpackLE32(b) == b[1] + 256 * b[2] + 65536 * b[3] + 16777216 * b[4]

\* ---- pokemon_environment.py: _action_to_bytes, config.py: BUTTON_MAPPING ----
\* a mapping that puts X on the button of A
BUTTON_MAPPING_CLASH ==
  (1 :> 0) @@ (2 :> 1) @@ (3 :> 4) @@ (4 :> 5) @@ (5 :> 6) @@ (6 :> 7) @@
  (7 :> 3) @@ (8 :> 2) @@ (9 :> 0) @@ (10 :> 9) @@ (11 :> 10) @@ (12 :> 11)

BUTTON_MAPPING ==
  (1 :> 0) @@ (2 :> 1) @@ (3 :> 4) @@ (4 :> 5) @@ (5 :> 6) @@ (6 :> 7) @@
  (7 :> 3) @@ (8 :> 2) @@ (9 :> 8) @@ (10 :> 9) @@ (11 :> 10) @@ (12 :> 11)

\* lines 112-119; index i of the sequence is index i - 1 of the Python list
ActionToBytes(a) ==
  [i \in 1..NUM_BUTTONS |->
     IF a > 0 /\ a \in DOMAIN BUTTON_MAPPING /\ BUTTON_MAPPING[a] = i - 1
       THEN 1 ELSE 0]

\* network.py line 93: bytes([0] * 12)
InitialAction == [i \in 1..NUM_BUTTONS |-> 0]

\* ---- step results ---------------------------------------------------------
NoResult == [obs |-> "none", reward |-> "none", done |-> FALSE, info |-> {}]

ShutdownResult == [obs |-> "zeros", reward |-> "0.0", done |-> TRUE, info |-> {"shutdown"}]

ReconnectedResult == [obs |-> "zeros", reward |-> "0.0", done |-> FALSE, info |-> {"reconnected"}]

FatalResult == [obs |-> "zeros", reward |-> "-1.0", done |-> TRUE, info |-> {"fatal_error"}]

NoExc == [type |-> "none", reason |-> "none"]

ObservationResult(done) == [obs |-> "top_screen", reward |-> "total_reward", done |-> done, info |-> {}]

VARIABLES
  pc,                      \* position of the thread of control
  shutdown_requested,      \* network.shutdown_requested
  env_shutdown_requested,  \* pokemon_environment.shutdown_requested (bound at import)
  conn,                    \* NetworkManager.conn: 0 is None, else the handle
  accepted,                \* connections accepted so far (the last handle)
  sync_buffer,             \* NetworkManager._sync_buffer
  consecutive_failures,    \* NetworkManager._consecutive_failures
  frame_counter,           \* PokemonEnvironment._frame_counter
  caller,                  \* who called wait_for_connection
  connection_attempts,     \* local of wait_for_connection
  search_buffer,           \* local of _synchronize_connection
  bytes_searched,          \* local of _synchronize_connection
  phase,                   \* which exact read of receive_gd2_frame is running
  n,                       \* argument of receive_exact_bytes
  buf,                     \* local of receive_exact_bytes
  bytes_to_take,           \* local of receive_exact_bytes (0 when the carry-over is empty)
  action,                  \* argument of step, from its first use on
  send_attempts,           \* local of send_action
  result,                  \* what the last step returned
  exc,                     \* the exception being handled by step, "none" if none
  wfcResult,               \* how the last wait_for_connection ended
  acceptCalls,             \* accept() calls made by the retry loop in progress
  stepOps,                 \* completed frame reads / action writes of the current step
  handshake,               \* outcome of the handshake send on the current connection
  connRead,                \* whether a byte was read from the current connection
  signalInStep,            \* whether the shutdown request arrived during the current step
  tagArrived,              \* whether the bytes received by the current scan contain the tag
  streamTail,              \* the last two bytes the current scan received before the tag
  inflight,                \* bytes received from the tag on, not yet returned by an exact read
  syncOutcome,             \* how _synchronize_connection ended on the current connection
  scanTrace,               \* what the last scan went through: trims done, tag split over chunks
  frame_history,           \* LoopDetector._frame_history (frame hashes)
  recent_actions,          \* LoopDetector._recent_actions
  consecutive_loops,       \* LoopDetector._consecutive_loops
  loop_penalty_escalation, \* LoopDetector._loop_penalty_escalation, in units of 0.05
  last_loop_detection,     \* LoopDetector._last_loop_detection
  last_obs,                \* PokemonRewardSystem._last_obs: None or the stored frame
  visited_areas,           \* PokemonRewardSystem._visited_areas (area hashes)
  steps_without_movement,  \* PokemonRewardSystem._steps_without_movement
  menu_state,              \* PokemonRewardSystem._menu_state
  menu_frames_count,       \* PokemonRewardSystem._menu_frames_count
  reset_obs,               \* what reset returned, "none" once step is called again
  connection_start_time,   \* NetworkManager._connection_start_time: the accept that set it
  last_successful_communication, \* the event that last set the field of that name
  last_battle_state,       \* PokemonRewardSystem._last_battle_state
  action_bytes,            \* local of step: what _action_to_bytes returned
  full_rgb,                \* local of step: what gd2_to_rgb returned (rows of pixels)
  top_screen,              \* local of step: the first value split_screens returned
  reward_parts,            \* what the last _calculate_total_reward added up, in 0.01
  sent,                    \* the control vector of the last sendall that returned
  open_handles,            \* the accepted sockets on which close has not been called
  detector_steps_without_movement,  \* LoopDetector._steps_without_movement
  movement_magnitude,      \* the argument of the last update_movement_tracking, in 0.1
  movement_penalty,        \* what the last get_movement_penalty returned, in 0.01
  script,                  \* the steps of a recorded run: frame, action, reward
  replay,                  \* how many steps of the script have been fed again
  recv_exact,              \* a call of DSWrapper._recv_exact (main.py)
  receive_exact_bytes      \* a call of NetworkManager.receive_exact_bytes

vars == <<pc, shutdown_requested, env_shutdown_requested, conn, accepted,
          sync_buffer, consecutive_failures, frame_counter, caller,
          connection_attempts, search_buffer, bytes_searched, phase, n, buf,
          bytes_to_take,
          action, send_attempts, result, exc, wfcResult, acceptCalls,
          stepOps, handshake, connRead, signalInStep,
          tagArrived, streamTail, inflight, syncOutcome, scanTrace,
          frame_history, recent_actions, consecutive_loops,
          loop_penalty_escalation, last_loop_detection, last_obs, visited_areas,
          steps_without_movement, menu_state, menu_frames_count,
          reset_obs, connection_start_time, last_successful_communication,
          last_battle_state, action_bytes, full_rgb, top_screen, reward_parts,
          sent, open_handles, detector_steps_without_movement,
          movement_magnitude, movement_penalty, script, replay, recv_exact,
          receive_exact_bytes>>

netVars == <<conn, accepted, open_handles, sync_buffer, consecutive_failures,
             handshake, connRead>>

wfcVars == <<caller, connection_attempts, acceptCalls, wfcResult>>

syncVars == <<search_buffer, bytes_searched>>

readVars == <<phase, n, buf, bytes_to_take>>

stepVars == <<action, send_attempts, result, exc, stepOps, frame_counter>>

flagVars == <<shutdown_requested, env_shutdown_requested, signalInStep>>

\* the peer's byte stream on the current connection, as the peer sent it
streamVars == <<tagArrived, streamTail, inflight, syncOutcome, scanTrace>>

loopVars == <<frame_history, recent_actions, consecutive_loops,
              loop_penalty_escalation, last_loop_detection,
              detector_steps_without_movement>>

rewardVars == <<last_obs, visited_areas, steps_without_movement, menu_state,
                menu_frames_count, last_battle_state>>

engineVars == <<loopVars, rewardVars>>

timeVars == <<connection_start_time, last_successful_communication>>

\* what only the runs of single functions and the recorded runs use
auxVars == <<movement_magnitude, movement_penalty, script, replay, recv_exact,
             receive_exact_bytes>>

\* no call of an exact read is running
NoCall == [pc |-> "none", sync_buffer |-> <<>>, buf |-> <<>>, n |-> 0]

AuxInit ==
  /\ movement_magnitude = 0
  /\ movement_penalty = 0
  /\ script = <<>>
  /\ replay = 0
  /\ recv_exact = NoCall
  /\ receive_exact_bytes = NoCall

\* None, as a value of a field that otherwise holds <<x>>
None == <<>>

\* what step computes from the frame and the action
frameVars == <<action_bytes, full_rgb, top_screen, reward_parts, sent>>

\* nothing added up: the reward 0.0
NoReward == [menu |-> 0, movement |-> 0, exploration |-> 0, transition |-> 0,
             battle |-> 0, idle |-> 0, visual |-> 0, escalation |-> 0,
             action |-> 0]

\* no step is running: its locals are unbound
FrameInit ==
  /\ action_bytes = <<>>
  /\ full_rgb = <<>>
  /\ top_screen = <<>>
  /\ reward_parts = NoReward

NoScan == [trimmed |-> FALSE, split |-> FALSE, cleared |-> FALSE]

LastTwo(s) == IF Len(s) > 2 THEN SubSeq(s, Len(s) - 1, Len(s)) ELSE s

\* ---- construction ---------------------------------------------------------
\* LoopDetector.__init__ and PokemonRewardSystem.__init__
EngineInit ==
  /\ frame_history = <<>>
  /\ recent_actions = <<>>
  /\ consecutive_loops = 0
  /\ loop_penalty_escalation = 0
  /\ last_loop_detection = 0
  /\ detector_steps_without_movement = 0
  /\ last_obs = None
  /\ visited_areas = {}
  /\ steps_without_movement = 0
  /\ menu_state = FALSE
  /\ menu_frames_count = 0
  /\ last_battle_state = FALSE

\* NetworkManager.__init__ has run and PokemonEnvironment.__init__ calls
\* _connect(); no signal has been delivered while the modules were imported.
Init ==
  /\ pc = "wfc_loop"
  /\ shutdown_requested = FALSE
  /\ env_shutdown_requested = shutdown_requested
  /\ conn = 0
  /\ open_handles = {}
  /\ accepted = 0
  /\ sync_buffer = <<>>
  /\ consecutive_failures = 0
  /\ frame_counter = 0
  /\ caller = "connect"
  /\ connection_attempts = 0
  /\ search_buffer = <<>>
  /\ bytes_searched = 0
  /\ phase = "none"
  /\ n = 0
  /\ buf = <<>>
  /\ bytes_to_take = 0
  /\ action = 0
  /\ send_attempts = 0
  /\ result = NoResult
  /\ exc = NoExc
  /\ wfcResult = "none"
  /\ acceptCalls = 0
  /\ stepOps = <<>>
  /\ handshake = "none"
  /\ connRead = FALSE
  /\ signalInStep = FALSE
  /\ tagArrived = FALSE
  /\ streamTail = <<>>
  /\ inflight = <<>>
  /\ syncOutcome = "none"
  /\ scanTrace = NoScan
  /\ EngineInit
  /\ reset_obs = "none"
  /\ connection_start_time = 0
  /\ last_successful_communication = "None"
  /\ FrameInit
  /\ sent = <<>>
  /\ AuxInit

Alive == pc \notin {"exited", "init_failed", "escaped"}

\* ---- network.py: signal_handler --------------------------------------------
SignalHandler ==
  /\ Alive
  /\ IF shutdown_requested
       THEN /\ pc' = "exited"
            /\ UNCHANGED <<shutdown_requested, signalInStep>>
       ELSE /\ shutdown_requested' = TRUE
            /\ signalInStep' = (pc # "idle")
            /\ UNCHANGED pc
  /\ UNCHANGED <<env_shutdown_requested, netVars, wfcVars, syncVars, readVars, stepVars>>
  /\ UNCHANGED streamVars
  /\ UNCHANGED engineVars
  /\ UNCHANGED auxVars
  /\ UNCHANGED <<timeVars, reset_obs, frameVars>>


\* ---- pokemon_environment.py: _handle_connection_error ----------------------
HandleConnectionErrorResult(reconnected) ==
  IF reconnected THEN ReconnectedResult ELSE FatalResult

\* ---- network.py: handle_connection_failure, lines 247-254 ------------------
\* what the call yields for each way wait_for_connection can end
\* the call without its try/except around wait_for_connection
HcfReturnUncaught(wfc) ==
  CASE wfc = "true" -> "True"
    [] wfc = "false" -> "False"
    [] wfc = "raised" -> "raise"

HcfReturn(wfc) ==
  CASE wfc = "true" -> "True"
    [] wfc = "false" -> "False"
    [] wfc = "raised" -> "False"

\* wait_for_connection ends with res ("true", "false" or "raised") and control
\* returns to its caller: _connect (constructor) or handle_connection_failure
\* called by _handle_connection_error, whose result step returns.
WfcReturn(res) ==
  /\ wfcResult' = res
  /\ IF caller = "connect"
       THEN /\ pc' = IF res = "true" THEN "idle" ELSE "init_failed"
            /\ UNCHANGED result
       ELSE IF HcfReturn(res) = "raise"
         THEN /\ pc' = "escaped"
              /\ UNCHANGED result
         ELSE /\ pc' = "idle"
              /\ result' = HandleConnectionErrorResult(HcfReturn(res) = "True")

\* ---- network.py: wait_for_connection ---------------------------------------
WfcCountAttempt(a) == a + 1

\* the retry loop with an off-by-one bound
WfcContinueOffByOne(a, shut) == a <= MAX_CONNECTION_ATTEMPTS /\ ~shut

\* the while condition of line 47
WfcContinue(a, shut) == a < MAX_CONNECTION_ATTEMPTS /\ ~shut

\* the loop exit without the shutdown test of line 81
WfcAfterLoopNoFlag(shut) == "raised"

\* lines 81-85: the outcome once the loop is left
WfcAfterLoop(shut) == IF shut THEN "false" ELSE "raised"

\* an accept that keeps the carry-over of the connection before
AcceptKeepBuffer(sb) == sb

\* line 63: self._sync_buffer = b""
AcceptResetBuffer(sb) == <<>>

WfcLoop ==
  /\ pc = "wfc_loop"
  /\ IF WfcContinue(connection_attempts, shutdown_requested)
       THEN /\ connection_attempts' = WfcCountAttempt(connection_attempts)
            /\ acceptCalls' = acceptCalls + 1
            /\ pc' = "wfc_accept"
       ELSE /\ pc' = "wfc_after"
            /\ UNCHANGED <<connection_attempts, acceptCalls>>
  /\ UNCHANGED <<flagVars, netVars, caller, wfcResult, syncVars, readVars, stepVars>>
  /\ UNCHANGED streamVars
  /\ UNCHANGED engineVars
  /\ UNCHANGED auxVars
  /\ UNCHANGED <<timeVars, reset_obs, frameVars>>

WfcAcceptOk ==
  /\ pc = "wfc_accept"
  /\ accepted < MaxConns
  /\ conn' = accepted + 1
  /\ accepted' = accepted + 1
  /\ open_handles' = open_handles \cup {accepted + 1}
  /\ sync_buffer' = AcceptResetBuffer(sync_buffer)
  /\ consecutive_failures' = 0
  /\ handshake' = "none"
  /\ connRead' = FALSE
  /\ pc' = "sync_send"
  /\ connection_attempts' = 0
  /\ acceptCalls' = 0
  /\ tagArrived' = FALSE
  /\ streamTail' = <<>>
  /\ inflight' = <<>>
  /\ syncOutcome' = "none"
  /\ scanTrace' = [NoScan EXCEPT !.cleared = sync_buffer # <<>>]
  /\ connection_start_time' = accepted + 1
  /\ last_successful_communication' = "accept"
  /\ UNCHANGED <<flagVars, caller, wfcResult, syncVars, readVars, stepVars>>
  /\ UNCHANGED engineVars
  /\ UNCHANGED auxVars
  /\ UNCHANGED <<reset_obs, frameVars>>

\* lines 56-61 and 75-79: accept has returned and self.conn is assigned, then
\* settimeout or setsockopt raises; the handler of line 75 closes nothing and
\* the loop goes on to its next accept
WfcConfigureFail ==
  /\ pc = "wfc_accept"
  /\ accepted < MaxConns
  /\ conn' = accepted + 1
  /\ accepted' = accepted + 1
  /\ open_handles' = open_handles \cup {accepted + 1}
  /\ pc' = "wfc_loop"
  /\ UNCHANGED <<sync_buffer, consecutive_failures, handshake, connRead>>
  /\ UNCHANGED <<flagVars, wfcVars, syncVars, readVars, stepVars>>
  /\ UNCHANGED streamVars
  /\ UNCHANGED engineVars
  /\ UNCHANGED auxVars
  /\ UNCHANGED <<timeVars, reset_obs, frameVars>>

\* socket.timeout (continue) or any other exception (sleep, next iteration)
WfcAcceptFail ==
  /\ pc = "wfc_accept"
  /\ \E outcome \in {"timeout", "error"} : pc' = "wfc_loop"
  /\ UNCHANGED <<flagVars, netVars, wfcVars, syncVars, readVars, stepVars>>
  /\ UNCHANGED streamVars
  /\ UNCHANGED engineVars
  /\ UNCHANGED auxVars
  /\ UNCHANGED <<timeVars, reset_obs, frameVars>>

WfcAfter ==
  /\ pc = "wfc_after"
  /\ WfcReturn(WfcAfterLoop(shutdown_requested))
  /\ connection_attempts' = 0
  /\ UNCHANGED <<flagVars, netVars, caller, acceptCalls, syncVars, readVars,
                 action, send_attempts, exc, stepOps, frame_counter>>
  /\ UNCHANGED streamVars
  /\ UNCHANGED engineVars
  /\ UNCHANGED auxVars
  /\ UNCHANGED <<timeVars, reset_obs, frameVars>>

\* ---- network.py: _synchronize_connection -----------------------------------
\* wait_for_connection treating a synchronization that found no tag as fatal
WfcAfterSyncStrict(outcome) == IF outcome = "found" THEN "true" ELSE "raised"

\* lines 68-69: _synchronize_connection returns nothing, wait_for_connection
\* returns True however the synchronization ended
WfcAfterSync(outcome) == "true"

\* why the loop of line 104 was left: the search bound, or the shutdown flag
SyncGaveUp(searched) ==
  IF searched >= max_search_bytes THEN "exhausted" ELSE "interrupted"

\* lines 92-97: the handshake; a failed send returns at once
SyncSend ==
  /\ pc = "sync_send"
  /\ \E ok \in BOOLEAN :
       IF ok
         THEN /\ handshake' = "sent"
              /\ sent' = InitialAction
              /\ pc' = "sync_loop"
              /\ UNCHANGED <<result, wfcResult, connection_attempts, syncOutcome>>
         ELSE /\ handshake' = "failed"
              /\ syncOutcome' = "unsent"
              /\ WfcReturn(WfcAfterSync("unsent"))
              /\ connection_attempts' = 0
              /\ UNCHANGED sent
  /\ UNCHANGED <<tagArrived, streamTail, inflight, scanTrace>>
  /\ search_buffer' = <<>>
  /\ bytes_searched' = 0
  /\ UNCHANGED <<flagVars, conn, accepted, open_handles, sync_buffer, consecutive_failures,
                 connRead, caller, acceptCalls, readVars,
                 action, send_attempts, exc, stepOps, frame_counter>>
  /\ UNCHANGED engineVars
  /\ UNCHANGED auxVars
  /\ UNCHANGED <<timeVars, reset_obs, action_bytes, full_rgb, top_screen,
                 reward_parts>>

\* the while condition of line 104
SyncContinue(searched, shut) == searched < max_search_bytes /\ ~shut

\* the trim keeping one byte instead of two
TrimKeepOne(sb) ==
  IF Len(sb) > SearchTrim THEN SubSeq(sb, Len(sb), Len(sb)) ELSE sb

\* lines 124-125
TrimSearchBuffer(sb) ==
  IF Len(sb) > SearchTrim THEN SubSeq(sb, Len(sb) - 1, Len(sb)) ELSE sb

SyncLoop ==
  /\ pc = "sync_loop"
  /\ IF SyncContinue(bytes_searched, shutdown_requested)
       THEN /\ pc' = "sync_recv"
            /\ UNCHANGED <<sync_buffer, syncVars, result, wfcResult, connection_attempts,
                           syncOutcome, streamTail>>
       ELSE /\ sync_buffer' = <<>>
            /\ search_buffer' = <<>>
            /\ bytes_searched' = 0
            /\ syncOutcome' = SyncGaveUp(bytes_searched)
            /\ streamTail' = <<>>
            /\ WfcReturn(WfcAfterSync(SyncGaveUp(bytes_searched)))
            /\ connection_attempts' = 0
  /\ UNCHANGED <<tagArrived, inflight, scanTrace>>
  /\ UNCHANGED <<flagVars, conn, accepted, open_handles, consecutive_failures, handshake,
                 connRead, caller, acceptCalls, readVars,
                 action, send_attempts, exc, stepOps, frame_counter>>
  /\ UNCHANGED engineVars
  /\ UNCHANGED auxVars
  /\ UNCHANGED <<timeVars, reset_obs, frameVars>>

\* the stream as the peer sent it, kept apart from the buffers of the code:
\* the first tag in it, and every byte from that tag on
PeerSent(chunk) ==
  LET st == streamTail \o chunk
      tpos == Find(st, GD2)
  IN  IF tagArrived
        THEN /\ inflight' = inflight \o chunk
             /\ UNCHANGED <<tagArrived, streamTail>>
        ELSE /\ tagArrived' = (tpos # -1)
             /\ inflight' = IF tpos # -1 THEN Drop(st, tpos) ELSE <<>>
             /\ streamTail' = IF tpos # -1 THEN <<>> ELSE LastTwo(st)

SyncRecvData ==
  /\ pc = "sync_recv"
  /\ \E chunk \in Chunks(Byte, SyncRecvSize) \cup {HeaderBurst} :
       LET sb == search_buffer \o chunk
           gd2_pos == Find(sb, GD2)
       IN  /\ IF gd2_pos # -1
                THEN /\ sync_buffer' = Drop(sb, gd2_pos)
                     /\ search_buffer' = <<>>
                     /\ bytes_searched' = 0
                     /\ syncOutcome' = "found"
                     /\ last_successful_communication' = "sync"
                     /\ scanTrace' = [scanTrace EXCEPT !.split = gd2_pos < Len(search_buffer)]
                     /\ WfcReturn(WfcAfterSync("found"))
                     /\ connection_attempts' = 0
                ELSE /\ search_buffer' = TrimSearchBuffer(sb)
                     /\ bytes_searched' = bytes_searched + Len(chunk)
                     /\ scanTrace' = [scanTrace EXCEPT
                                        !.trimmed = @ \/ TrimSearchBuffer(sb) # sb]
                     /\ pc' = "sync_loop"
                     /\ UNCHANGED <<sync_buffer, result, wfcResult, connection_attempts,
                                    syncOutcome, last_successful_communication>>
           /\ PeerSent(chunk)
  /\ connRead' = TRUE
  /\ UNCHANGED <<flagVars, conn, accepted, open_handles, consecutive_failures, handshake,
                 caller, acceptCalls, readVars,
                 action, send_attempts, exc, stepOps, frame_counter>>
  /\ UNCHANGED engineVars
  /\ UNCHANGED auxVars
  /\ UNCHANGED <<connection_start_time, reset_obs, frameVars>>

SyncRecvTimeout ==
  /\ pc = "sync_recv"
  /\ pc' = "sync_loop"
  /\ UNCHANGED <<flagVars, netVars, wfcVars, syncVars, readVars, stepVars>>
  /\ UNCHANGED streamVars
  /\ UNCHANGED engineVars
  /\ UNCHANGED auxVars
  /\ UNCHANGED <<timeVars, reset_obs, frameVars>>

\* recv returns b"" or raises: both leave the loop by break (lines 107-108, 130-132)
SyncRecvFail ==
  /\ pc = "sync_recv"
  /\ \E outcome \in {"closed", "error"} :
       /\ sync_buffer' = <<>>
       /\ search_buffer' = <<>>
       /\ bytes_searched' = 0
       /\ syncOutcome' = "broken"
       /\ streamTail' = <<>>
       /\ WfcReturn(WfcAfterSync("broken"))
       /\ connection_attempts' = 0
  /\ UNCHANGED <<tagArrived, inflight, scanTrace>>
  /\ UNCHANGED <<flagVars, conn, accepted, open_handles, consecutive_failures, handshake,
                 connRead, caller, acceptCalls, readVars,
                 action, send_attempts, exc, stepOps, frame_counter>>
  /\ UNCHANGED engineVars
  /\ UNCHANGED auxVars
  /\ UNCHANGED <<timeVars, reset_obs, frameVars>>


\* ---- exceptions raised inside step's try block -----------------------------
\* every raise of network.py and image_processing.py is a ConnectionError
NetworkErrorType == "ConnectionError"

\* image_processing.py, gd2_to_rgb lines 37-38 and 45-46
DecodeErrorType == "ConnectionError"

\* pokemon_environment.py line 99: except (ConnectionError, OSError)
StepCatches(type) == type \in {"ConnectionError", "OSError"}

\* the locals of step and of the functions it calls
localVars == <<phase, n, buf, bytes_to_take, send_attempts, action, stepOps>>

\* the exception unwinds to step's except clause; the frames it leaves are gone
Raise(type, reason) ==
  /\ exc' = [type |-> type, reason |-> reason]
  /\ pc' = "step_except"
  /\ phase' = "none"
  /\ n' = 0
  /\ buf' = <<>>
  /\ bytes_to_take' = 0
  /\ send_attempts' = 0
  /\ action' = 0
  /\ stepOps' = <<>>

\* ---- pokemon_environment.py: step, lines 68-73 -----------------------------
\* the name shutdown_requested of pokemon_environment is its own binding
StepCall ==
  /\ pc = "idle"
  /\ frame_counter < MaxFrames
  /\ consecutive_failures < MaxFailures
  /\ exc' = NoExc
  /\ wfcResult' = "none"
  /\ stepOps' = <<>>
  /\ buf' = <<>>
  /\ bytes_to_take' = 0
  /\ IF env_shutdown_requested
       THEN /\ result' = ShutdownResult
            /\ pc' = "idle"
            /\ UNCHANGED <<phase, n>>
       ELSE /\ result' = NoResult
            /\ pc' = "reb_start"
            /\ phase' = "tag"
            /\ n' = 3
  /\ signalInStep' = FALSE
  /\ scanTrace' = NoScan
  /\ UNCHANGED <<tagArrived, streamTail, inflight, syncOutcome>>
  /\ UNCHANGED <<shutdown_requested, env_shutdown_requested, netVars, caller,
                 connection_attempts, acceptCalls, syncVars, send_attempts,
                 action, frame_counter>>
  /\ reset_obs' = "none"
  /\ action_bytes' = <<>>
  /\ full_rgb' = <<>>
  /\ top_screen' = <<>>
  /\ reward_parts' = NoReward
  /\ UNCHANGED sent
  /\ UNCHANGED engineVars
  /\ UNCHANGED auxVars
  /\ UNCHANGED timeVars

\* ---- network.py: receive_exact_bytes ---------------------------------------
\* line 154
BytesToTake(sb, want) == Min(Len(sb), want)

\* line 160/164: the size passed to recv
RecvSize(want, got) == want - Len(got)

\* the while condition of line 159
RebContinue(got, want, shut) == Len(got) < want /\ ~shut

\* lines 166-169: what a socket.timeout leads to
RebOnTimeout(shut) == IF shut THEN "raise" ELSE "continue"

\* the loop exit of main.py's _recv_exact, which has no shutdown check after it
RebAfterLoopNoCheck(shut) == "return"

\* lines 177-180: what follows the loop
RebAfterLoop(shut) == IF shut THEN "raise" ELSE "return"

\* buf.extend with the new bytes put in front of those already held
ExtendFront(got, chunk) == chunk \o got

\* line 175: buf.extend(chunk)
Extend(got, chunk) == got \o chunk

RebStart ==
  /\ pc = "reb_start"
  /\ bytes_to_take' = BytesToTake(sync_buffer, n)
  /\ buf' = Take(sync_buffer, bytes_to_take')
  /\ sync_buffer' = Drop(sync_buffer, bytes_to_take')
  /\ pc' = "reb_loop"
  /\ UNCHANGED <<flagVars, conn, accepted, open_handles, consecutive_failures, handshake,
                 connRead, wfcVars, syncVars, phase, n, stepVars>>
  /\ UNCHANGED streamVars
  /\ UNCHANGED engineVars
  /\ UNCHANGED auxVars
  /\ UNCHANGED <<timeVars, reset_obs, frameVars>>

RebLoop ==
  /\ pc = "reb_loop"
  /\ pc' = IF RebContinue(buf, n, shutdown_requested) THEN "reb_recv" ELSE "reb_after"
  /\ UNCHANGED <<flagVars, netVars, wfcVars, syncVars, readVars, stepVars>>
  /\ UNCHANGED streamVars
  /\ UNCHANGED engineVars
  /\ UNCHANGED auxVars
  /\ UNCHANGED <<timeVars, reset_obs, frameVars>>

\* recv(remaining) returns between 1 and remaining bytes; the peer answers no
\* exact read that asks for more than MaxPayload bytes
RebRecvData ==
  /\ pc = "reb_recv"
  /\ conn # 0
  /\ n <= MaxPayload
  /\ \E chunk \in Chunks(IF phase = "blob" THEN PayloadByte ELSE Byte, RecvSize(n, buf)) :
       /\ buf' = Extend(buf, chunk)
       /\ inflight' = IF syncOutcome = "found" THEN inflight \o chunk ELSE inflight
  /\ UNCHANGED <<tagArrived, streamTail, syncOutcome, scanTrace>>
  /\ connRead' = TRUE
  /\ pc' = "reb_loop"
  /\ UNCHANGED <<flagVars, conn, accepted, open_handles, sync_buffer, consecutive_failures,
                 handshake, wfcVars, syncVars, phase, n, bytes_to_take, stepVars>>
  /\ UNCHANGED engineVars
  /\ UNCHANGED auxVars
  /\ UNCHANGED <<timeVars, reset_obs, frameVars>>

RebRecvTimeout ==
  /\ pc = "reb_recv"
  /\ conn # 0
  /\ pc' = "reb_timeout"
  /\ UNCHANGED <<flagVars, netVars, wfcVars, syncVars, readVars, stepVars>>
  /\ UNCHANGED streamVars
  /\ UNCHANGED engineVars
  /\ UNCHANGED auxVars
  /\ UNCHANGED <<timeVars, reset_obs, frameVars>>

RebTimeout ==
  /\ pc = "reb_timeout"
  /\ IF RebOnTimeout(shutdown_requested) = "raise"
       THEN Raise(NetworkErrorType, "shutdown")
       ELSE /\ pc' = "reb_loop"
            /\ UNCHANGED <<exc, localVars>>
  /\ UNCHANGED <<flagVars, netVars, wfcVars, syncVars, result, frame_counter>>
  /\ UNCHANGED streamVars
  /\ UNCHANGED engineVars
  /\ UNCHANGED auxVars
  /\ UNCHANGED <<timeVars, reset_obs, frameVars>>

\* recv returns b"" (line 173) or raises (line 170); with conn None the call
\* self.conn.settimeout raises inside the try and is wrapped the same way
RebRecvFail ==
  /\ pc = "reb_recv"
  /\ \E reason \in IF conn # 0 THEN {"closed", "error"} ELSE {"error"} :
       Raise(NetworkErrorType, reason)
  /\ UNCHANGED <<flagVars, netVars, wfcVars, syncVars, result, frame_counter>>
  /\ UNCHANGED streamVars
  /\ UNCHANGED engineVars
  /\ UNCHANGED auxVars
  /\ UNCHANGED <<timeVars, reset_obs, frameVars>>

RebAfter ==
  /\ pc = "reb_after"
  /\ IF RebAfterLoop(shutdown_requested) = "raise"
       THEN Raise(NetworkErrorType, "shutdown")
       ELSE /\ pc' = "reb_return"
            /\ UNCHANGED <<exc, localVars>>
  /\ UNCHANGED <<flagVars, netVars, wfcVars, syncVars, result, frame_counter>>
  /\ UNCHANGED streamVars
  /\ UNCHANGED engineVars
  /\ UNCHANGED auxVars
  /\ UNCHANGED <<timeVars, reset_obs, frameVars>>

\* ---- network.py: receive_gd2_frame -----------------------------------------
RgfTag ==
  /\ pc = "reb_return"
  /\ phase = "tag"
  /\ IF buf # GD2
       THEN Raise(NetworkErrorType, "tag")
       ELSE /\ phase' = "length"
            /\ n' = 4
            /\ buf' = <<>>
            /\ bytes_to_take' = 0
            /\ pc' = "reb_start"
            /\ UNCHANGED <<exc, send_attempts, action, stepOps>>
  /\ inflight' = Drop(inflight, Len(buf))
  /\ UNCHANGED <<tagArrived, streamTail, syncOutcome, scanTrace>>
  /\ UNCHANGED <<flagVars, netVars, wfcVars, syncVars, result, frame_counter>>
  /\ UNCHANGED engineVars
  /\ UNCHANGED auxVars
  /\ UNCHANGED <<timeVars, reset_obs, frameVars>>

RgfLength ==
  /\ pc = "reb_return"
  /\ phase = "length"
  /\ LET length == UnpackLE32(buf)
     IN  IF length < MIN_GD2_LENGTH
           THEN Raise(NetworkErrorType, "length")
           ELSE /\ phase' = "blob"
                /\ n' = length
                /\ buf' = <<>>
                /\ bytes_to_take' = 0
                /\ pc' = "reb_start"
                /\ UNCHANGED <<exc, send_attempts, action, stepOps>>
  /\ inflight' = Drop(inflight, Len(buf))
  /\ UNCHANGED <<tagArrived, streamTail, syncOutcome, scanTrace>>
  /\ UNCHANGED <<flagVars, netVars, wfcVars, syncVars, result, frame_counter>>
  /\ UNCHANGED engineVars
  /\ UNCHANGED auxVars
  /\ UNCHANGED <<timeVars, reset_obs, frameVars>>

\* ---- image_processing.py: gd2_to_rgb, line 37 ------------------------------
\* a decoder that accepts (pads) a payload of any length
DecodableAlways(gd_bytes) == TRUE

Decodable(gd_bytes) == Len(gd_bytes) >= RAW_IMAGE_SIZE

\* the geometry the functions of image_processing.py import from config.py:
\* IMAGE_WIDTH, IMAGE_HEIGHT, TOP_SCREEN_HEIGHT
Geometry(w, h, top) == [width |-> w, height |-> h, top |-> top]

\* the geometry of the frames of the session above
SessionGeometry == Geometry(IMAGE_WIDTH, IMAGE_HEIGHT, TOP_SCREEN_HEIGHT)

\* a second scaling of 256 x 384 with 192 rows on top, with more than one
\* pixel in a row
WideGeometry == Geometry(2, 4, 2)

\* line 34: raw_len
RawLen(g) == g.width * g.height * BYTES_PER_PIXEL

\* a decoder that reads the image at the front of the payload
RawFirst(gd_bytes, raw_len) == SubSeq(gd_bytes, 1, raw_len)

\* line 41: gd_bytes[-raw_len:]
RawLast(gd_bytes, raw_len) ==
  SubSeq(gd_bytes, Len(gd_bytes) - raw_len + 1, Len(gd_bytes))

\* lines 41-49: reshape to (IMAGE_HEIGHT, IMAGE_WIDTH, 4), then arr[..., [3, 2, 1]];
\* the result is a sequence of rows, a row a sequence of pixels; on fewer than
\* raw_len bytes the call raises (lines 37-38, or the reshape) and returns no
\* array
Gd2ToRgbOf(gd_bytes, g) ==
  LET raw == RawLast(gd_bytes, RawLen(g))
      at(r, c, ch) == raw[((r - 1) * g.width + (c - 1)) * BYTES_PER_PIXEL + ch + 1]
  IN  IF Len(gd_bytes) < RawLen(g) THEN <<>>
      ELSE [r \in 1..g.height |->
             [c \in 1..g.width |-> <<at(r, c, 3), at(r, c, 2), at(r, c, 1)>>]]

\* image_processing.py: split_screens, full_rgb[:192] and full_rgb[192:]
SplitScreensOf(full, g) ==
  [top |-> SubSeq(full, 1, Min(g.top, Len(full))),
   bottom |-> SubSeq(full, Min(g.top, Len(full)) + 1, Len(full))]

Gd2ToRgb(gd_bytes) == Gd2ToRgbOf(gd_bytes, SessionGeometry)

SplitScreens(full) == SplitScreensOf(full, SessionGeometry)

\* ---- pokemon_environment.py: step, what follows the decoding ---------------
\* step returning the observation without sending the action
AfterDecodeSkipSend == "return"

AfterDecode == "send_action"

\* receive_gd2_frame returns the blob (lines 229-233), step decodes it
\* (lines 76-83) and calls send_action; step's argument, which nothing reads
\* before line 83, is drawn here
RgfBlob ==
  /\ pc = "reb_return"
  /\ phase = "blob"
  /\ IF Len(buf) < n
       THEN /\ Raise(NetworkErrorType, "truncated")
            /\ UNCHANGED <<action_bytes, full_rgb, top_screen>>
       ELSE IF ~Decodable(buf)
         THEN /\ Raise(DecodeErrorType, "decode")
              /\ UNCHANGED <<action_bytes, full_rgb, top_screen>>
         ELSE /\ stepOps' = Append(stepOps, "frame_read")
              /\ full_rgb' = Gd2ToRgb(buf)
              /\ top_screen' = SplitScreens(full_rgb').top
              /\ \E a \in SessionActions :
                   /\ action' = a
                   /\ action_bytes' = ActionToBytes(a)
              /\ send_attempts' = 0
              /\ pc' = IF AfterDecode = "send_action" THEN "send_loop" ELSE "step_finish"
              /\ UNCHANGED <<exc, phase, n, buf, bytes_to_take>>
  /\ inflight' = Drop(inflight, Len(buf))
  /\ UNCHANGED <<tagArrived, streamTail, syncOutcome, scanTrace>>
  /\ UNCHANGED <<flagVars, netVars, wfcVars, syncVars, result, frame_counter>>
  /\ UNCHANGED engineVars
  /\ UNCHANGED auxVars
  /\ UNCHANGED <<timeVars, reset_obs, reward_parts, sent>>

\* ---- network.py: send_action -----------------------------------------------
\* the while condition of line 194
SendContinue(attempts, shut) == attempts < MAX_SEND_ATTEMPTS /\ ~shut

\* a step that goes on to its reward when send_action returned False
SendFailedIgnored ==
  /\ pc' = "step_finish"
  /\ UNCHANGED <<exc, localVars>>

\* step lines 86-87: send_action returned False, step raises
SendFailed == Raise(NetworkErrorType, "send")

\* leaving the loop returns False (line 206)
SendLoop ==
  /\ pc = "send_loop"
  /\ IF SendContinue(send_attempts, shutdown_requested)
       THEN /\ pc' = "send_try"
            /\ UNCHANGED <<exc, localVars>>
       ELSE SendFailed
  /\ UNCHANGED <<flagVars, netVars, wfcVars, syncVars, result, frame_counter>>
  /\ UNCHANGED streamVars
  /\ UNCHANGED engineVars
  /\ UNCHANGED auxVars
  /\ UNCHANGED <<timeVars, reset_obs, frameVars>>

SendTryOk ==
  /\ pc = "send_try"
  /\ conn # 0
  /\ consecutive_failures' = 0
  /\ stepOps' = Append(stepOps, "action_write")
  /\ pc' = "step_finish"
  /\ UNCHANGED <<flagVars, conn, accepted, open_handles, sync_buffer, handshake, connRead,
                 wfcVars, syncVars, readVars,
                 action, send_attempts, result, exc, frame_counter>>
  /\ last_successful_communication' = "send"
  /\ UNCHANGED streamVars
  /\ UNCHANGED engineVars
  /\ UNCHANGED auxVars
  /\ sent' = action_bytes
  /\ UNCHANGED <<connection_start_time, reset_obs, action_bytes, full_rgb,
                 top_screen, reward_parts>>

SendTryFail ==
  /\ pc = "send_try"
  /\ send_attempts' = send_attempts + 1
  /\ pc' = "send_loop"
  /\ UNCHANGED <<flagVars, netVars, wfcVars, syncVars, readVars,
                 action, result, exc, stepOps, frame_counter>>
  /\ UNCHANGED streamVars
  /\ UNCHANGED engineVars
  /\ UNCHANGED auxVars
  /\ UNCHANGED <<timeVars, reset_obs, frameVars>>

\* ---- loop_detection.py ------------------------------------------------------
\* what the engines look at in a frame: the hash of its downsampled pixels
\* (loop_detection.py:52-53), the hash of its area sample (reward_system.py:
\* 212-213), whether _analyze_menu_state takes it for a menu, whether
\* _detect_potential_battles takes it for a battle, and how far it is from the
\* frame before: "still" below 1.5, "slight" up to 2.0, "moving" above 2.0,
\* "jump" above 25.0
Frame(h, ar, m, b, mv) ==
  [hash |-> h, area |-> ar, menu |-> m, battle |-> b, move |-> mv]

\* frames of the overworld and of menus, none battle-like, none a transition
ObsInputs ==
  {Frame(h, h, m, FALSE, mv) :
     h \in {0, 1}, m \in BOOLEAN, mv \in {"still", "slight", "moving"}}

\* the all-zero image the session layer of this model delivers: two menu
\* indicators out of five (lines 160, 174), brightness 0 and variance 0 in the
\* battle area, no difference from a zero frame
ZeroImage == Frame(0, 0, FALSE, FALSE, "still")

\* obs.copy(): the frame, without its distance from the frame before it
Copy(o) == [hash |-> o.hash, area |-> o.area, menu |-> o.menu, battle |-> o.battle]

Max(a, b) == IF a > b THEN a ELSE b

\* append, without the eviction of the oldest entry
PushUnbounded(hist, x, size) == Append(hist, x)

\* lines 56-58 and 163-165: append, then pop(0) when the window is exceeded
PushBounded(hist, x, size) ==
  LET h == Append(hist, x) IN IF Len(h) > size THEN Tail(h) ELSE h

\* a detector without the second stage of line 115
VisualPenaltyFlat(hist) ==
  IF Len(hist) < LOOP_DETECTION_WINDOW THEN 0
  ELSE LET L == Len(hist)
           recent == SubSeq(hist, L - LOOP_DETECTION_WINDOW + 1, L)
           W == Len(recent)
       IN  (IF \E v \in {recent[i] : i \in 1..W} :
                 Cardinality({i \in 1..W : recent[i] = v}) >= VISUAL_REPEATS
              THEN -30 ELSE 0)
         + (IF /\ W >= 4
               /\ recent[W - 3] = recent[W - 1]
               /\ recent[W - 2] = recent[W]
               /\ recent[W - 3] # recent[W - 2]
              THEN -20 ELSE 0)

\* _detect_visual_loops, in 0.01: -0.3 for a frame 3 or more times in the
\* window, -0.5 more for 4 or more times, -0.2 for A-B-A-B at its end
VisualPenalty(hist) ==
  IF Len(hist) < LOOP_DETECTION_WINDOW THEN 0
  ELSE LET L == Len(hist)
           recent == SubSeq(hist, L - LOOP_DETECTION_WINDOW + 1, L)
           W == Len(recent)
           repeats(v) == Cardinality({i \in 1..W : recent[i] = v})
           seen == {recent[i] : i \in 1..W}
       IN  (IF \E v \in seen : repeats(v) >= VISUAL_REPEATS THEN -30 ELSE 0)
         + (IF \E v \in seen : repeats(v) >= VISUAL_REPEATS /\ repeats(v) >= 4
              THEN -50 ELSE 0)
         + (IF /\ W >= 4
               /\ recent[W - 3] = recent[W - 1]
               /\ recent[W - 2] = recent[W]
               /\ recent[W - 3] # recent[W - 2]
              THEN -20 ELSE 0)

\* line 67: visual_loop_penalty < 0 (movement_loop_penalty is always 0.0)
VisualLoop(hist) == VisualPenalty(hist) < 0

\* an escalation without its ceiling
EscalationRaiseUncapped(e) == e + ESCALATION_RAISE

\* line 74: min(escalation + 0.1, 1.0)
EscalationRaise(e) == Min(e + ESCALATION_RAISE, ESCALATION_MAX)

\* line 85: max(0.0, escalation - 0.05)
EscalationDecay(e) == Max(0, e - ESCALATION_DECAY)

\* a grace period that is always over
GraceOverAlways(fc, last) == TRUE

\* line 83: frame_counter - self._last_loop_detection > 50
GraceOver(fc, last) == fc - last > LOOP_GRACE_FRAMES

\* detect_and_penalize_loops(obs, frame_counter)
DetectAndPenalizeLoops(o, fc) ==
  /\ frame_history' = PushBounded(frame_history, o.hash, FRAME_HISTORY_SIZE)
  /\ IF VisualLoop(frame_history')
       THEN /\ consecutive_loops' = consecutive_loops + 1
            /\ last_loop_detection' = fc
            /\ loop_penalty_escalation' =
                 IF consecutive_loops' > MAX_CONSECUTIVE_LOOPS
                   THEN EscalationRaise(loop_penalty_escalation)
                   ELSE loop_penalty_escalation
       ELSE /\ IF GraceOver(fc, last_loop_detection)
                 THEN /\ consecutive_loops' = Max(0, consecutive_loops - 1)
                      /\ loop_penalty_escalation' = EscalationDecay(loop_penalty_escalation)
                 ELSE UNCHANGED <<consecutive_loops, loop_penalty_escalation>>
            /\ UNCHANGED last_loop_detection

\* line 75: reward -= self._loop_penalty_escalation, in 0.01, given the
\* history, the counter and the escalation the call leaves
EscalationPenalty(hist, loops, esc) ==
  IF VisualLoop(hist) /\ loops > MAX_CONSECUTIVE_LOOPS THEN -5 * esc ELSE 0

\* an action-loop test that asks for more than the threshold
ActionPenaltyLate(recent) ==
  IF /\ Len(recent) > ACTION_LOOP_THRESHOLD
     /\ \A i \in (Len(recent) - ACTION_LOOP_THRESHOLD)..Len(recent) :
          recent[i] = recent[Len(recent)]
    THEN -20 ELSE 0

\* track_action, lines 168-184, in 0.01, given the history the call leaves
ActionPenalty(recent) ==
  IF /\ Len(recent) >= ACTION_LOOP_THRESHOLD
     /\ \A i \in (Len(recent) - ACTION_LOOP_THRESHOLD + 1)..Len(recent) :
          recent[i] = recent[Len(recent)]
    THEN -20 ELSE 0

\* track_action(action, frame_counter)
TrackAction(a) ==
  recent_actions' = PushBounded(recent_actions, a, ACTION_HISTORY_SIZE)

\* LoopDetector.reset
LoopDetectorReset ==
  /\ frame_history' = <<>>
  /\ recent_actions' = <<>>
  /\ consecutive_loops' = 0
  /\ loop_penalty_escalation' = 0
  /\ last_loop_detection' = 0
  /\ detector_steps_without_movement' = 0

\* ---- reward_system.py ------------------------------------------------------
\* lines 206, 224: movement_amount > 2.0
Moved(o) == o.move \in {"moving", "jump"}

\* _detect_menu_states_and_escape, lines 95-108
MenuFramesAfter(cur) ==
  IF cur /\ ~menu_state THEN 0
  ELSE IF ~cur /\ menu_state THEN menu_frames_count
  ELSE IF cur THEN menu_frames_count + 1
  ELSE menu_frames_count

\* the frame counts of lines 110, 112 and 114 (50, 150 and 300 in the source)
MENU_STAGES == <<1, 2, 3>>

\* a detector whose stages replace each other instead of adding up
MenuRewardSingle(cur) ==
  IF cur /\ ~menu_state THEN -10
  ELSE IF ~cur /\ menu_state THEN 50
  ELSE IF cur
    THEN LET c == menu_frames_count + 1
         IN  IF c > MENU_STAGES[3] THEN -60
             ELSE IF c > MENU_STAGES[2] THEN -40
             ELSE IF c > MENU_STAGES[1] THEN -20 ELSE 0
  ELSE 0

\* _detect_menu_states_and_escape, the reward of lines 95-114, in 0.01
MenuReward(cur) ==
  IF cur /\ ~menu_state THEN -10
  ELSE IF ~cur /\ menu_state THEN 50
  ELSE IF cur
    THEN LET c == menu_frames_count + 1
         IN  (IF c > MENU_STAGES[1] THEN -20 ELSE 0)
           + (IF c > MENU_STAGES[2] THEN -40 ELSE 0)
           + (IF c > MENU_STAGES[3] THEN -60 ELSE 0)
  ELSE 0

\* _detect_movement_and_exploration, lines 206-231, with the menu state as
\* line 123 has just set it
StillAfterMovement(o) ==
  IF Moved(o)
    THEN IF ~o.menu THEN 0 ELSE steps_without_movement
    ELSE IF ~o.menu THEN steps_without_movement + 1 ELSE steps_without_movement

\* lines 207 and 226, in 0.01
MovementReward(o) ==
  IF Moved(o) THEN (IF ~o.menu THEN 20 ELSE 2) ELSE 0

\* an exploration bonus that does not look at the set
NewAreaAlways(o) == Moved(o) /\ ~o.menu

\* lines 215-218
NewArea(o) == Moved(o) /\ ~o.menu /\ o.area \notin visited_areas

\* _apply_idle_penalty, lines 312-313
StillAfterIdle(o, still) == IF o.move = "still" THEN still + 1 ELSE still

\* _apply_idle_penalty, lines 312-320, in 0.01, given the counter line 313 leaves
IdlePenalty(o, still) ==
  IF o.move = "still" /\ still > MAX_STEPS_STILL
    THEN (IF still < MAX_STEPS_STILL + IDLE_SECOND_STAGE THEN -5 ELSE -10)
    ELSE 0

\* _detect_potential_battles, lines 285-287, in 0.01
BattleBonus(o) == IF o.battle /\ o.battle # last_battle_state THEN 30 ELSE 0

\* what compute_reward adds up, by detector
DetectorRewards(o) ==
  [menu |-> MenuReward(o.menu),
   movement |-> MovementReward(o),
   exploration |-> IF NewArea(o) THEN 80 ELSE 0,
   transition |-> IF o.move = "jump" THEN 100 ELSE 0,
   battle |-> BattleBonus(o),
   idle |-> IdlePenalty(o, StillAfterIdle(o, StillAfterMovement(o)))]

\* line 62: the detectors run only once a frame has been stored
DetectorsRun == last_obs # None

\* compute_reward(obs)
ComputeReward(o) ==
  /\ IF DetectorsRun
       THEN /\ menu_frames_count' = MenuFramesAfter(o.menu)
            /\ menu_state' = o.menu
            /\ steps_without_movement' = StillAfterIdle(o, StillAfterMovement(o))
            /\ visited_areas' = IF NewArea(o)
                                  THEN visited_areas \cup {o.area}
                                  ELSE visited_areas
            /\ last_battle_state' = o.battle
       ELSE UNCHANGED <<menu_frames_count, menu_state, steps_without_movement,
                        visited_areas, last_battle_state>>
  /\ last_obs' = <<Copy(o)>>

\* a reset that keeps the areas seen, as it keeps the session counts
RewardSystemResetKeepsAreas ==
  /\ last_obs' = None
  /\ UNCHANGED visited_areas
  /\ steps_without_movement' = 0
  /\ menu_state' = FALSE
  /\ menu_frames_count' = 0
  /\ last_battle_state' = FALSE

\* PokemonRewardSystem.reset
RewardSystemReset ==
  /\ last_obs' = None
  /\ visited_areas' = {}
  /\ steps_without_movement' = 0
  /\ menu_state' = FALSE
  /\ menu_frames_count' = 0
  /\ last_battle_state' = FALSE

\* ---- pokemon_environment.py: _calculate_total_reward -----------------------
\* the sum of line 139, kept by term
Total(parts) ==
  parts.menu + parts.movement + parts.exploration + parts.transition
  + parts.battle + parts.idle + parts.visual + parts.escalation + parts.action

CalculateTotalReward(o, a, fc) ==
  /\ ComputeReward(o)
  /\ DetectAndPenalizeLoops(o, fc)
  /\ TrackAction(a)
  /\ UNCHANGED detector_steps_without_movement
  /\ reward_parts' =
       LET r == IF DetectorsRun THEN DetectorRewards(o) ELSE NoReward
       IN  [menu |-> r.menu, movement |-> r.movement,
            exploration |-> r.exploration, transition |-> r.transition,
            battle |-> r.battle, idle |-> r.idle,
            visual |-> VisualPenalty(frame_history'),
            escalation |-> EscalationPenalty(frame_history', consecutive_loops',
                                             loop_penalty_escalation'),
            action |-> ActionPenalty(recent_actions')]

\* ---- pokemon_environment.py: _check_terminal -------------------------------
\* an episode that ends after every frame
CheckTerminalAlways(flag) == TRUE

CheckTerminal(flag) == IF flag THEN TRUE ELSE FALSE

\* step lines 90-97: reward, terminal flag, frame counter, return
StepFinish ==
  /\ pc = "step_finish"
  /\ CalculateTotalReward(ZeroImage, action, frame_counter)
  /\ result' = ObservationResult(CheckTerminal(env_shutdown_requested))
  /\ frame_counter' = frame_counter + 1
  /\ pc' = "idle"
  /\ phase' = "none"
  /\ n' = 0
  /\ buf' = <<>>
  /\ bytes_to_take' = 0
  /\ send_attempts' = 0
  /\ action' = 0
  /\ action_bytes' = <<>>
  /\ full_rgb' = <<>>
  /\ top_screen' = <<>>
  /\ UNCHANGED <<flagVars, netVars, wfcVars, syncVars, exc, stepOps>>
  /\ UNCHANGED streamVars
  /\ UNCHANGED <<timeVars, reset_obs, sent>>
  /\ UNCHANGED auxVars

\* ---- pokemon_environment.py: reset, lines 237-251 ---------------------------
\* a reset that also drops the session
ResetDropsSession(c) == 0

\* reset has no statement on the network manager
ResetSession(c) == c

ResetCall ==
  /\ pc = "idle"
  /\ RewardSystemReset
  /\ LoopDetectorReset
  /\ reset_obs' = "zeros"
  /\ reward_parts' = NoReward
  /\ UNCHANGED <<action_bytes, full_rgb, top_screen, sent>>
  /\ conn' = ResetSession(conn)
  /\ UNCHANGED open_handles
  /\ UNCHANGED <<pc, flagVars, accepted, sync_buffer, consecutive_failures, handshake,
                 connRead, wfcVars, syncVars, readVars, stepVars>>
  /\ UNCHANGED streamVars
  /\ UNCHANGED timeVars

Reset == ResetCall /\ UNCHANGED auxVars

\* ---- step line 99-100, _handle_connection_error, handle_connection_failure -
\* a caught exception counts one failure, closes the handle and re-enters
\* wait_for_connection; any other exception leaves step
\* a failure counted twice
HcfCountTwice(failures) == failures + 2

\* network.py line 237
HcfCount(failures) == failures + 1

\* lines 240-245: close is called on the handle held, if any
HcfClose(handles, c) == handles \ {c}

StepExcept ==
  /\ pc = "step_except"
  /\ IF StepCatches(exc.type)
       THEN /\ consecutive_failures' = HcfCount(consecutive_failures)
            /\ conn' = 0
            /\ open_handles' = HcfClose(open_handles, conn)
            /\ caller' = "reconnect"
            /\ connection_attempts' = 0
            /\ acceptCalls' = 0
            /\ tagArrived' = FALSE
            /\ streamTail' = <<>>
            /\ inflight' = <<>>
            /\ syncOutcome' = "none"
            /\ pc' = "wfc_loop"
       ELSE /\ pc' = "escaped"
            /\ UNCHANGED <<consecutive_failures, conn, open_handles, caller,
                           connection_attempts,
                           acceptCalls, tagArrived, streamTail, inflight, syncOutcome>>
  /\ UNCHANGED <<exc, scanTrace>>
  /\ UNCHANGED <<flagVars, accepted, sync_buffer, handshake, connRead, wfcResult,
                 syncVars, localVars, result, frame_counter>>
  /\ UNCHANGED engineVars
  /\ UNCHANGED auxVars
  /\ UNCHANGED <<timeVars, reset_obs, frameVars>>

Next ==
  \/ SignalHandler
  \/ WfcLoop \/ WfcAcceptOk \/ WfcAcceptFail \/ WfcAfter
  \/ SyncSend \/ SyncLoop \/ SyncRecvData \/ SyncRecvTimeout \/ SyncRecvFail
  \/ StepCall
  \/ RebStart \/ RebLoop \/ RebRecvData \/ RebRecvTimeout \/ RebTimeout
  \/ RebRecvFail \/ RebAfter
  \/ RgfTag \/ RgfLength \/ RgfBlob
  \/ SendLoop \/ SendTryOk \/ SendTryFail
  \/ StepFinish \/ StepExcept

Spec == Init /\ [][Next]_vars

\* the steps of the program's only thread: everything but the signal handler
Thread ==
  \/ WfcLoop \/ WfcAcceptOk \/ WfcAcceptFail \/ WfcAfter
  \/ SyncSend \/ SyncLoop \/ SyncRecvData \/ SyncRecvTimeout \/ SyncRecvFail
  \/ StepCall
  \/ RebStart \/ RebLoop \/ RebRecvData \/ RebRecvTimeout \/ RebTimeout
  \/ RebRecvFail \/ RebAfter
  \/ RgfTag \/ RgfLength \/ RgfBlob
  \/ SendLoop \/ SendTryOk \/ SendTryFail
  \/ StepFinish \/ StepExcept

\* the thread keeps running: a blocking call always returns (with data, a
\* timeout or an error) and the statement after it is executed.  Nothing is
\* assumed about which outcome the peer or the network produces.
LiveSpec == Init /\ [][Next]_vars /\ WF_vars(Thread)

\* the session with an accepted socket that cannot be configured
HandleNext == Next \/ WfcConfigureFail

HandleSpec == Init /\ [][HandleNext]_vars

\* ---- the engines taken alone ------------------------------------------------
\* the environment just constructed: the peer connected, the scan found the tag
\* at the end of what it had received, no step made yet
EngineSpecInit ==
  /\ pc = "idle"
  /\ shutdown_requested = FALSE
  /\ env_shutdown_requested = FALSE
  /\ conn = 1
  /\ open_handles = {1}
  /\ accepted = 1
  /\ sync_buffer = GD2
  /\ consecutive_failures = 0
  /\ frame_counter = 0
  /\ caller = "connect"
  /\ connection_attempts = 0
  /\ search_buffer = <<>>
  /\ bytes_searched = 0
  /\ phase = "none"
  /\ n = 0
  /\ buf = <<>>
  /\ bytes_to_take = 0
  /\ action = 0
  /\ send_attempts = 0
  /\ result = NoResult
  /\ exc = NoExc
  /\ wfcResult = "true"
  /\ acceptCalls = 0
  /\ stepOps = <<>>
  /\ handshake = "sent"
  /\ connRead = TRUE
  /\ signalInStep = FALSE
  /\ tagArrived = TRUE
  /\ streamTail = <<>>
  /\ inflight = GD2
  /\ syncOutcome = "found"
  /\ scanTrace = NoScan
  /\ EngineInit
  /\ reset_obs = "none"
  /\ connection_start_time = 1
  /\ last_successful_communication = "sync"
  /\ FrameInit
  /\ sent = InitialAction
  /\ AuxInit

\* a step of pokemon_environment.py that receives a frame and sends its action
\* (lines 75-97), from call to return: the frame is whatever the peer drew, the
\* session is left as StepCall .. StepFinish leave it
EngineCall(o, a) ==
  /\ pc = "idle"
  /\ ~env_shutdown_requested
  /\ CalculateTotalReward(o, a, frame_counter)
  /\ frame_counter' = frame_counter + 1
  /\ result' = ObservationResult(CheckTerminal(env_shutdown_requested))
  /\ stepOps' = <<"frame_read", "action_write">>
  /\ sync_buffer' = <<>>
  /\ inflight' = <<>>
  /\ wfcResult' = "none"
  /\ last_successful_communication' = "send"
  /\ reset_obs' = "none"
  /\ exc' = NoExc
  /\ sent' = ActionToBytes(a)
  /\ UNCHANGED <<action_bytes, full_rgb, top_screen>>
  /\ UNCHANGED <<pc, flagVars, conn, accepted, open_handles, consecutive_failures, handshake,
                 connRead, caller, connection_attempts, acceptCalls, syncVars,
                 readVars, action, send_attempts>>
  /\ UNCHANGED <<tagArrived, streamTail, syncOutcome, scanTrace,
                 connection_start_time>>

EngineStep(o, a) == EngineCall(o, a) /\ UNCHANGED auxVars

\* the steps of a run of at most MaxEngineSteps frames of the overworld and
\* of menus
FrameStep ==
  /\ frame_counter < MaxEngineSteps
  /\ \E o \in ObsInputs, a \in ActionInputs : EngineStep(o, a)

\* a step whose frame read fails on the socket and whose reconnection succeeds
\* (lines 99-100 of step, then _handle_connection_error), from call to return:
\* the engines are not called, the session is the newly accepted one
FailedStep ==
  /\ pc = "idle"
  /\ ~env_shutdown_requested
  /\ accepted < MaxConns
  /\ exc' = [type |-> "ConnectionError", reason |-> "error"]
  /\ result' = ReconnectedResult
  /\ conn' = accepted + 1
  /\ accepted' = accepted + 1
  /\ open_handles' = HcfClose(open_handles, conn) \cup {accepted + 1}
  /\ connection_start_time' = accepted + 1
  /\ last_successful_communication' = "sync"
  /\ sync_buffer' = GD2
  /\ inflight' = GD2
  /\ caller' = "reconnect"
  /\ wfcResult' = "true"
  /\ stepOps' = <<>>
  /\ reset_obs' = "none"
  /\ UNCHANGED <<pc, flagVars, consecutive_failures, handshake, connRead,
                 connection_attempts, acceptCalls, syncVars, readVars, action,
                 send_attempts, frame_counter>>
  /\ UNCHANGED <<tagArrived, streamTail, syncOutcome, scanTrace>>
  /\ UNCHANGED engineVars
  /\ UNCHANGED auxVars
  /\ reward_parts' = NoReward
  /\ sent' = InitialAction
  /\ UNCHANGED <<action_bytes, full_rgb, top_screen>>

EngineNext == FrameStep \/ FailedStep \/ Reset

EngineSpec == EngineSpecInit /\ [][EngineNext]_vars


\* ---- the loop detector on repeating frames --------------------------------
\* frames of a bot that stands still, in the overworld or in a menu: nothing
\* moves, the hash of the downsampled frame takes one of two values
LoopInputs == {Frame(h, 0, m, FALSE, "still") : h \in {0, 1}, m \in BOOLEAN}

\* the steps of a run of at most MaxLoopSteps such frames
LoopStep ==
  /\ frame_counter < MaxLoopSteps
  /\ \E o \in LoopInputs, a \in ActionInputs : EngineStep(o, a)

LoopNext == LoopStep \/ Reset

LoopSpec == EngineSpecInit /\ [][LoopNext]_vars


\* ---- the stall tracking of the loop detector taken alone --------------------
\* the stall counts of lines 212, 214 and 216 (100, 200 and 400 in the source)
MOVEMENT_STAGES == <<1, 2, 3>>

\* movement magnitudes, in 0.1: none, just below 0.5, 0.5, above it
MagnitudeInputs == {0, 4, 5, 6}

\* a tracking that takes a magnitude of 0.5 for no movement
StallAfterInclusive(count, magnitude) ==
  IF magnitude <= 5 THEN count + 1 ELSE 0

\* update_movement_tracking, lines 193-196
StallAfter(count, magnitude) ==
  IF magnitude < 5 THEN count + 1 ELSE 0

\* get_movement_penalty, lines 208-216, in 0.01
StallPenalty(count) ==
    (IF count > MOVEMENT_STAGES[1] THEN -10 ELSE 0)
  + (IF count > MOVEMENT_STAGES[2] THEN -20 ELSE 0)
  + (IF count > MOVEMENT_STAGES[3] THEN -50 ELSE 0)

\* what a call of one of the two methods leaves alone
MovementFrame ==
  UNCHANGED <<pc, flagVars, netVars, wfcVars, syncVars, readVars, stepVars,
              streamVars, frame_history, recent_actions, consecutive_loops,
              loop_penalty_escalation, last_loop_detection, rewardVars,
              timeVars, reset_obs, frameVars, script, replay, recv_exact,
              receive_exact_bytes>>

UpdateMovementTracking ==
  /\ pc = "idle"
  /\ detector_steps_without_movement < MaxStall
  /\ \E magnitude \in MagnitudeInputs :
       /\ movement_magnitude' = magnitude
       /\ detector_steps_without_movement' =
            StallAfter(detector_steps_without_movement, magnitude)
  /\ UNCHANGED movement_penalty
  /\ MovementFrame

GetMovementPenalty ==
  /\ pc = "idle"
  /\ movement_penalty' = StallPenalty(detector_steps_without_movement)
  /\ UNCHANGED <<movement_magnitude, detector_steps_without_movement>>
  /\ MovementFrame

\* a step of the environment between the calls: it feeds the frame history
MovementStep ==
  /\ frame_counter < MaxFrames
  /\ \E o \in LoopInputs, a \in ActionInputs : EngineStep(o, a)

MovementNext ==
  UpdateMovementTracking \/ GetMovementPenalty \/ MovementStep \/ Reset

MovementSpec == EngineSpecInit /\ [][MovementNext]_vars


\* ---- a run recorded and fed again after reset -------------------------------
\* frames of a bot that stands, walks into a new area or opens a menu
ReplayInputs ==
  {Frame(0, 0, FALSE, FALSE, "still"), Frame(1, 0, FALSE, FALSE, "still"),
   Frame(0, 0, TRUE, FALSE, "still"), Frame(1, 1, FALSE, FALSE, "moving")}

\* what the recorded run does not touch
ReplayFrame ==
  UNCHANGED <<movement_magnitude, movement_penalty, recv_exact,
              receive_exact_bytes>>

\* the first steps of a freshly constructed environment, kept with their
\* rewards
RecordStep ==
  /\ replay = 0
  /\ Len(script) = frame_counter
  /\ frame_counter < MaxReplaySteps
  /\ \E o \in ReplayInputs, a \in SessionActions :
       /\ EngineCall(o, a)
       /\ script' = Append(script, [obs |-> o, action |-> a,
                                    reward |-> reward_parts'])
  /\ UNCHANGED replay
  /\ ReplayFrame

\* further steps of that environment, not kept
FreeStep ==
  /\ replay = 0
  /\ script # <<>>
  /\ frame_counter < MaxReplaySteps
  /\ \E o \in ReplayInputs, a \in SessionActions : EngineCall(o, a)
  /\ UNCHANGED <<script, replay>>
  /\ ReplayFrame

\* reset is called once
ReplayReset ==
  /\ replay = 0
  /\ script # <<>>
  /\ ResetCall
  /\ replay' = 1
  /\ UNCHANGED script
  /\ ReplayFrame

\* the frames and actions of the kept steps, fed to the environment again
ReplayStep ==
  /\ replay \in 1..Len(script)
  /\ EngineCall(script[replay].obs, script[replay].action)
  /\ replay' = replay + 1
  /\ UNCHANGED script
  /\ ReplayFrame

ReplayNext == RecordStep \/ FreeStep \/ ReplayReset \/ ReplayStep

ReplaySpec == EngineSpecInit /\ [][ReplayNext]_vars


\* ---- the reward system on battle-like frames ---------------------------------
\* frames that differ in whether _detect_potential_battles takes them for a
\* battle, either close to the frame before or far from it
BattleInputs ==
  {Frame(0, 0, FALSE, b, mv) : b \in BOOLEAN, mv \in {"still", "jump"}}

\* the steps of a run of at most MaxEngineSteps such frames
BattleStep ==
  /\ frame_counter < MaxEngineSteps
  /\ \E o \in BattleInputs, a \in ActionInputs : EngineStep(o, a)

BattleNext == BattleStep \/ Reset

BattleSpec == EngineSpecInit /\ [][BattleNext]_vars

\* ---- a scripted run ---------------------------------------------------------
\* what the first frame of the run may be
ScenarioInputs ==
  {Frame(h, h, m, b, "still") : h \in {0, 1}, m \in BOOLEAN, b \in BOOLEAN}

\* the frame stored by the step before, fed again: no pixel differs
SameFrame ==
  Frame(last_obs[1].hash, last_obs[1].area, last_obs[1].menu,
        last_obs[1].battle, "still")

\* frames whose mean difference from the frame before is above 25.0
JumpInputs ==
  {Frame(h, h, m, b, "jump") : h \in {0, 1}, m \in BOOLEAN, b \in BOOLEAN}

\* frame 1 of a fresh environment
FirstFrame ==
  /\ frame_counter = 0
  /\ \E o \in ScenarioInputs, a \in ActionInputs : EngineStep(o, a)

\* frames 2..IdenticalFrames
IdenticalFrame ==
  /\ frame_counter \in 1..(IdenticalFrames - 1)
  /\ \E a \in ActionInputs : EngineStep(SameFrame, a)

\* frames IdenticalFrames + 1 .. ScenarioFrames
JumpFrame ==
  /\ frame_counter \in IdenticalFrames..(ScenarioFrames - 1)
  /\ \E o \in JumpInputs, a \in ActionInputs : EngineStep(o, a)

ScenarioNext == FirstFrame \/ IdenticalFrame \/ JumpFrame

ScenarioSpec == EngineSpecInit /\ [][ScenarioNext]_vars


\* ---- the codecs taken alone --------------------------------------------------
\* the session at rest after a successful synchronisation, before any step
CodecSpecInit == EngineSpecInit

\* pokemon_environment.py:38, Discrete(len(ACTION_NAMES)): the actions 0..12
ActionSpace == 0..(NUM_ACTIONS - 1)

\* the two geometries payloads are drawn for
Geometries == {SessionGeometry, WideGeometry}

\* bytes of a payload's prefix
PrefixByte == {0, 71}

\* the prefixes of up to k bytes
RECURSIVE Prefixes(_)
Prefixes(k) ==
  IF k = 0 THEN {<<>>}
  ELSE Prefixes(k - 1)
       \cup {Append(q, b) : q \in {x \in Prefixes(k - 1) : Len(x) = k - 1},
                            b \in PrefixByte}

\* an image no two bytes of which are equal: byte i is i
Ramp(len) == [i \in 1..len |-> i % 256]

\* payloads of RawLen + k bytes, k in 0..MaxPrefix
Payloads(g) == {q \o Ramp(RawLen(g)) : q \in Prefixes(MaxPrefix)}

\* what gd2_to_rgb is called on: a payload and the geometry of the build
DecodeInputs ==
  UNION {{[geometry |-> g, payload |-> q] : q \in Payloads(g)} : g \in Geometries}

\* pokemon_environment.py:83, a call of _action_to_bytes
EncodeCall ==
  /\ pc = "idle"
  /\ \E a \in ActionSpace :
       /\ action' = a
       /\ action_bytes' = ActionToBytes(a)
  /\ UNCHANGED <<full_rgb, top_screen, reward_parts, sent, buf>>

\* network.py:196, sendall(action_bytes) returning
WriteCall ==
  /\ pc = "idle"
  /\ action_bytes # <<>>
  /\ sent' = action_bytes
  /\ UNCHANGED <<action, action_bytes, full_rgb, top_screen, reward_parts, buf>>

\* network.py:93-94, the handshake of a session
HandshakeCall ==
  /\ pc = "idle"
  /\ sent' = InitialAction
  /\ UNCHANGED <<action, action_bytes, full_rgb, top_screen, reward_parts, buf>>

\* pokemon_environment.py:76-77, gd2_to_rgb and split_screens on a payload
DecodeCall ==
  /\ pc = "idle"
  /\ \E d \in DecodeInputs :
       /\ buf' = d.payload
       /\ full_rgb' = Gd2ToRgbOf(d.payload, d.geometry)
       /\ top_screen' = SplitScreensOf(full_rgb', d.geometry).top
  /\ UNCHANGED <<action, action_bytes, reward_parts, sent>>

\* what no codec touches
CodecFrame ==
  UNCHANGED <<pc, flagVars, netVars, wfcVars, syncVars, phase, n, bytes_to_take,
              send_attempts, result, exc, stepOps, frame_counter, streamVars,
              engineVars, timeVars, reset_obs, auxVars>>

CodecNext == (EncodeCall \/ WriteCall \/ HandshakeCall \/ DecodeCall) /\ CodecFrame

CodecSpec == CodecSpecInit /\ [][CodecNext]_vars


\* ---- the two exact reads on the same socket events ---------------------------
\* main.py line 233: socket.timeout raises "Timed out mid-frame"
RecvExactOnTimeout(shut) == "raise"

\* lines 153-156 of network.py and 224-227 of main.py: the call takes what it
\* can from the carry-over
StartCall(carry, want) ==
  [pc |-> "loop", sync_buffer |-> Drop(carry, BytesToTake(carry, want)),
   buf |-> Take(carry, BytesToTake(carry, want)), n |-> want]

\* the while condition and what follows the loop, for a call at its loop head
AtLoop(call, afterLoop) ==
  IF call.pc # "loop" THEN call
  ELSE IF RebContinue(call.buf, call.n, shutdown_requested)
    THEN [call EXCEPT !.pc = "recv"]
    ELSE [call EXCEPT !.pc = IF afterLoop = "raise" THEN "raised" ELSE "returned"]

\* recv returned chunk to a call waiting in it
OnData(call, chunk) ==
  IF call.pc # "recv" THEN call
  ELSE [call EXCEPT !.buf = Extend(call.buf, chunk), !.pc = "loop"]

\* recv raised socket.timeout in a call waiting in it
OnTimeout(call, onTimeout) ==
  IF call.pc # "recv" THEN call
  ELSE [call EXCEPT !.pc = IF onTimeout = "raise" THEN "raised" ELSE "loop"]

\* recv returned b"" or raised another exception: ConnectionError in both
OnFail(call) ==
  IF call.pc # "recv" THEN call ELSE [call EXCEPT !.pc = "raised"]

\* the carry-overs a call may find
Carries == Prefixes(MaxRead)

\* what the two calls leave alone
ReadFrame ==
  UNCHANGED <<pc, env_shutdown_requested, signalInStep, netVars, wfcVars,
              syncVars, readVars, stepVars, streamVars, engineVars, timeVars,
              reset_obs, frameVars, movement_magnitude, movement_penalty,
              script, replay>>

Waiting == {c \in {recv_exact, receive_exact_bytes} : c.pc = "recv"}

\* both methods are called with the same carry-over and the same size
ReadCall ==
  /\ pc = "idle"
  /\ recv_exact.pc = "none"
  /\ \E carry \in Carries, want \in 1..MaxRead :
       /\ recv_exact' = StartCall(carry, want)
       /\ receive_exact_bytes' = StartCall(carry, want)
  /\ UNCHANGED shutdown_requested
  /\ ReadFrame

\* each call that is at its loop head tests the condition
ReadLoop ==
  /\ "loop" \in {recv_exact.pc, receive_exact_bytes.pc}
  /\ recv_exact' = AtLoop(recv_exact, RebAfterLoopNoCheck(shutdown_requested))
  /\ receive_exact_bytes' =
       AtLoop(receive_exact_bytes, RebAfterLoop(shutdown_requested))
  /\ UNCHANGED shutdown_requested
  /\ ReadFrame

\* the socket hands the same bytes to each call waiting in recv
ReadData ==
  /\ "loop" \notin {recv_exact.pc, receive_exact_bytes.pc}
  /\ \E c \in Waiting :
       \E chunk \in Chunks(PrefixByte, RecvSize(c.n, c.buf)) :
         /\ recv_exact' = OnData(recv_exact, chunk)
         /\ receive_exact_bytes' = OnData(receive_exact_bytes, chunk)
  /\ UNCHANGED shutdown_requested
  /\ ReadFrame

\* the socket times out under each call waiting in recv
ReadTimeout ==
  /\ "loop" \notin {recv_exact.pc, receive_exact_bytes.pc}
  /\ Waiting # {}
  /\ recv_exact' = OnTimeout(recv_exact, RecvExactOnTimeout(shutdown_requested))
  /\ receive_exact_bytes' =
       OnTimeout(receive_exact_bytes, RebOnTimeout(shutdown_requested))
  /\ UNCHANGED shutdown_requested
  /\ ReadFrame

\* the peer closes or the socket fails under each call waiting in recv
ReadFail ==
  /\ "loop" \notin {recv_exact.pc, receive_exact_bytes.pc}
  /\ Waiting # {}
  /\ recv_exact' = OnFail(recv_exact)
  /\ receive_exact_bytes' = OnFail(receive_exact_bytes)
  /\ UNCHANGED shutdown_requested
  /\ ReadFrame

\* SIGINT arrives while the calls run
ReadSignal ==
  /\ recv_exact.pc # "none"
  /\ ~shutdown_requested
  /\ shutdown_requested' = TRUE
  /\ UNCHANGED <<recv_exact, receive_exact_bytes>>
  /\ ReadFrame

ReadNext ==
  ReadCall \/ ReadLoop \/ ReadData \/ ReadTimeout \/ ReadFail \/ ReadSignal

ReadSpec == EngineSpecInit /\ [][ReadNext]_vars



\* ==== claims ================================================================

\* C1: a step that returns a frame as its observation has completed exactly
\* one frame read and then exactly one action write, in that order, and from
\* the end of the frame read on no byte read from the socket is left over in
\* the carry-over: no byte of the next frame is read before the action write.
C1_ReadThenWrite ==
  /\ (pc = "idle" /\ result.obs = "top_screen")
       => (stepOps = <<"frame_read", "action_write">> /\ sync_buffer = <<>>)
  /\ pc \in {"send_loop", "send_try"}
       => (stepOps = <<"frame_read">> /\ sync_buffer = <<>>)
  /\ pc = "step_finish" => sync_buffer = <<>>

C1_Witness ==
  pc = "idle" /\ result.obs = "top_screen" /\ frame_counter = 2

\* C2: whenever a byte has been read from the current connection, the
\* 12 zero bytes of the handshake have been sent on it.
C2_HandshakeBeforeRead == connRead => handshake = "sent"

\* C3: receive_exact_bytes(n) returns only with exactly n bytes in hand; every
\* other way out of it is a raised connection error.
C3_ExactLength == pc = "reb_return" => Len(buf) = n

C3_Witness ==
  pc = "reb_return" /\ phase = "blob" /\ Len(buf) >= MIN_GD2_LENGTH /\ shutdown_requested

\* C4: a socket timeout during an exact read interrupts it with a connection
\* error (the step then closes the connection and reconnects).
C4_TimeoutIsFatal ==
  [][(pc = "reb_timeout" /\ pc' \notin {"reb_timeout", "exited"})
       => pc' = "step_except"]_vars

\* C5: once shutdown has been requested, a call of step returns at once with
\* the shutdown result and starts no network operation.
C5_ShutdownStepImmediate ==
  [][(pc = "idle" /\ shutdown_requested /\ pc' # "exited")
       => (pc' = "idle" /\ result' = ShutdownResult)]_vars

\* C6: a step during which shutdown was requested, and whose exact read or
\* reconnection was cut short by it, returns the shutdown result, never the
\* fatal_error result.
C6_ShutdownNotFatal ==
  (pc = "idle" /\ result # NoResult /\ signalInStep /\ wfcResult = "false")
    => result = ShutdownResult

\* C7: a step that hit a connection error returns the reconnected result when
\* the reconnection succeeded and the fatal result when the attempts were
\* exhausted, and no exception leaves step.
C7_ConnectionErrorResult ==
  /\ pc # "escaped"
  /\ pc = "step_except" => StepCatches(exc.type)
  /\ (pc = "idle" /\ caller = "reconnect" /\ wfcResult = "true")
       => result = ReconnectedResult
  /\ (pc = "idle" /\ caller = "reconnect" /\ wfcResult = "raised")
       => result = FatalResult

C7_Witness ==
  pc = "idle" /\ wfcResult = "raised" /\ result = FatalResult /\ ~shutdown_requested

C9_AcceptBound ==
  /\ acceptCalls <= MAX_CONNECTION_ATTEMPTS
  /\ wfcResult = "raised" => acceptCalls = MAX_CONNECTION_ATTEMPTS
  /\ (pc = "wfc_after" /\ ~shutdown_requested) => acceptCalls = MAX_CONNECTION_ATTEMPTS

C9_Witness ==
  wfcResult = "raised" /\ acceptCalls = MAX_CONNECTION_ATTEMPTS /\ ~shutdown_requested

\* C10: with the shutdown flag set, the between-attempt check of
\* wait_for_connection starts no further accept, and the call then returns
\* False instead of raising, whatever the number of attempts made.
C10_ShutdownAbortsCleanly ==
  [][/\ (pc = "wfc_loop" /\ shutdown_requested) => pc' \in {"wfc_loop", "wfc_after", "exited"}
     /\ (pc = "wfc_after" /\ shutdown_requested /\ pc' \notin {"wfc_after", "exited"})
          => (wfcResult' = "false" /\ pc' # "escaped")]_vars

C10_Witness ==
  wfcResult = "false" /\ acceptCalls \in 1..(MAX_CONNECTION_ATTEMPTS - 1)

\* C11: the scan never goes on once the bytes it has received contain the tag,
\* however the tag is split over chunks and whatever was trimmed before it:
\* the tag has arrived exactly when the synchronization ended as found.
C11_TagFound ==
  /\ pc \in {"sync_loop", "sync_recv"} => ~tagArrived
  /\ tagArrived <=> syncOutcome = "found"

C11_Witness ==
  pc = "idle" /\ syncOutcome = "found" /\ scanTrace.trimmed /\ scanTrace.split

\* C12: after a successful synchronization the carry-over followed by what the
\* socket delivers is the peer's stream from the first tag on: the bytes of an
\* exact read in progress followed by the carry-over are the bytes received and
\* not yet returned, in order, none lost and none twice.
C12_CarryOverIsStream ==
  syncOutcome = "found" =>
    /\ pc \in {"reb_loop", "reb_recv", "reb_timeout", "reb_after", "reb_return"}
         => buf \o sync_buffer = inflight
    /\ pc \in {"idle", "reb_start", "send_loop", "send_try", "step_finish"}
         => sync_buffer = inflight

C12_Witness ==
  /\ pc = "reb_return" /\ phase = "length" /\ syncOutcome = "found"
  /\ bytes_to_take \in 1..3 /\ buf = <<68, 0, 0, 0>>

\* C13 (as stated): after a synchronization abandoned at the search bound, the
\* next frame read fails on its tag check: no frame read on that connection
\* gets past the tag.
C13_NextReadFailsOnTag ==
  syncOutcome = "exhausted" => phase \notin {"length", "blob"}

\* C13 (amended): a synchronization abandoned at the search bound leaves the
\* carry-over empty and the connection reported as established (the caller gets
\* True: the constructor goes on, a reconnecting step returns the reconnected
\* result); the next frame read takes all its bytes from the socket, so it
\* fails on the tag check only when the next three bytes are not the tag.
C13_AbandonedProceeds ==
  syncOutcome = "exhausted" =>
    /\ sync_buffer = <<>> /\ bytes_to_take = 0
    /\ conn # 0
    /\ wfcResult \in {"true", "none"}
    /\ pc \notin {"init_failed", "escaped"}
    /\ (pc = "idle" /\ wfcResult = "true")
         => result = IF caller = "connect" THEN NoResult ELSE ReconnectedResult

C13_Witness ==
  syncOutcome = "exhausted" /\ pc = "idle" /\ result.obs = "top_screen"

\* C14: a synchronization that has started always ends (tag found, or given
\* up), whatever the peer does.
C14_SyncTerminates ==
  (pc = "sync_loop") ~> (pc \notin {"sync_loop", "sync_recv"})

\* C15: a frame with a wrong tag, a declared length below 20 or a payload
\* shorter than one image takes the step straight to its error handling, which
\* closes the connection and re-enters wait_for_connection; only a well-formed
\* frame ever reaches the action write that precedes delivery.
C15_MalformedIsFatal ==
  [][/\ ( /\ pc = "reb_return"
          /\ \/ phase = "tag" /\ buf # <<71, 68, 50>>
             \/ phase = "length" /\ UnpackLE32(buf) < 20
             \/ phase = "blob" /\ Len(buf) < IMAGE_WIDTH * IMAGE_HEIGHT * 4
          /\ pc' \notin {"reb_return", "exited"} )
        => (pc' = "step_except" /\ result' = NoResult)
     /\ (pc = "step_except" /\ pc' \notin {"step_except", "exited"})
        => (conn' = 0 /\ pc' = "wfc_loop" /\ caller' = "reconnect" /\ result' = NoResult)
    ]_vars

C15_Witness ==
  /\ pc = "idle" /\ exc.reason = "decode"
  /\ result = ReconnectedResult /\ conn = 2

\* C16: send_action makes at most MAX_SEND_ATTEMPTS attempts, reports success
\* as soon as one attempt succeeds, and reports failure only after
\* MAX_SEND_ATTEMPTS attempts have been made and have failed.
C16_SendAttempts ==
  [][/\ send_attempts' <= MAX_SEND_ATTEMPTS
     /\ (pc = "send_try" /\ stepOps' # stepOps) => pc' = "step_finish"
     /\ (pc = "send_loop" /\ pc' = "step_except")
          => send_attempts = MAX_SEND_ATTEMPTS
    ]_vars

\* C17: the error handling of a failed step adds exactly one to the
\* consecutive-failure counter and then starts the reconnection from its first
\* attempt with the connection closed, whatever the counter's value.
C17_FailureCounted ==
  [][(pc = "step_except" /\ pc' \notin {"step_except", "exited"})
       => /\ consecutive_failures' = consecutive_failures + 1
          /\ conn' = 0
          /\ pc' = "wfc_loop" /\ caller' = "reconnect"
          /\ connection_attempts' = 0 /\ acceptCalls' = 0
    ]_vars

C17_Witness ==
  pc = "wfc_accept" /\ consecutive_failures > max_consecutive_failures

C19_EngineInvariants ==
  /\ Len(frame_history) <= FRAME_HISTORY_SIZE
  /\ Len(recent_actions) <= ACTION_HISTORY_SIZE
  /\ consecutive_loops >= 0
  /\ loop_penalty_escalation >= 0
  /\ loop_penalty_escalation <= ESCALATION_MAX
  /\ steps_without_movement >= 0
  /\ menu_frames_count >= 0

\* a failed step has returned with both windows full and the escalation raised
C19_Witness ==
  /\ result = ReconnectedResult
  /\ Len(frame_history) = FRAME_HISTORY_SIZE
  /\ Len(recent_actions) = ACTION_HISTORY_SIZE
  /\ loop_penalty_escalation > 0
  /\ consecutive_loops > MAX_CONSECUTIVE_LOOPS


\* C20: a call of reset leaves both engines as they are after construction and
\* returns the zero observation, and changes nothing of the session: the
\* handle, the carry-over, the failure counter and the two timestamps are what
\* they were, and no accept, send or recv is made.
C20_ResetLeavesConnection ==
  [][(/\ pc = "idle" /\ pc' = "idle"
      /\ reset_obs' = "zeros"
      /\ (reset_obs = "none" \/ engineVars' # engineVars))
       => /\ EngineInit'
          /\ UNCHANGED <<conn, accepted, sync_buffer, consecutive_failures,
                         connection_start_time, last_successful_communication>>
          /\ UNCHANGED <<handshake, connRead, acceptCalls, stepOps, inflight,
                         tagArrived, frame_counter, result>>]_vars

\* reset has returned right after a step that delivered a frame
C20_Witness ==
  /\ pc = "idle"
  /\ reset_obs = "zeros"
  /\ result.obs = "top_screen"
  /\ frame_counter = 2
  /\ conn = 2
  /\ last_successful_communication = "send"
  /\ last_obs = None
  /\ frame_history = <<>>
  /\ recent_actions = <<>>


\* the number of bytes of a control vector that are 1
Ones(v) == Cardinality({i \in 1..Len(v) : v[i] = 1})

\* C21: for every action 0..12 the vector _action_to_bytes returns has 12
\* bytes, each 0 or 1: all 0 for action 0, exactly one 1 for the actions
\* 1..12, and at a position no other action of 1..12 sets; every control
\* vector a sendall has written, the handshake's included, has at most one
\* byte equal to 1.
C21_ControlVector ==
  /\ action_bytes # <<>> =>
       /\ Len(action_bytes) = 12
       /\ \A i \in 1..12 : action_bytes[i] \in {0, 1}
       /\ action = 0 => Ones(action_bytes) = 0
       /\ action \in 1..12 =>
            /\ Ones(action_bytes) = 1
            /\ \A b \in (1..12) \ {action} : ActionToBytes(b) # action_bytes
  /\ sent # <<>> => (Len(sent) = 12 /\ Ones(sent) <= 1)

\* the vector of action 9 has been returned and written, its one flag at
\* index 8 of the Python list
C21_Witness ==
  /\ action = 9
  /\ action_bytes[9] = 1
  /\ sent = action_bytes


\* C30: of a payload of W*H*4 + k bytes gd2_to_rgb uses the last W*H*4 bytes,
\* whatever the k bytes before them: pixel (r, c) of the result is bytes 3, 2
\* and 1 of the 4 bytes of source pixel (r, c), the source pixels counted row by
\* row; decoding the payload without its prefix, or decoding it again, gives
\* the same image; the first value of split_screens is the first
\* TOP_SCREEN_HEIGHT rows of it.
C30_DecodeLastBytes ==
  full_rgb # <<>> =>
    \E g \in Geometries :
      LET k == Len(buf) - g.width * g.height * 4
      IN  /\ k >= 0
          /\ Len(full_rgb) = g.height
          /\ \A r \in 1..g.height :
               /\ Len(full_rgb[r]) = g.width
               /\ \A c \in 1..g.width :
                    LET base == k + ((r - 1) * g.width + (c - 1)) * 4
                    IN  full_rgb[r][c] = <<buf[base + 4], buf[base + 3], buf[base + 2]>>
          /\ full_rgb = Gd2ToRgbOf(SubSeq(buf, k + 1, Len(buf)), g)
          /\ full_rgb = Gd2ToRgbOf(buf, g)
          /\ Len(top_screen) = g.top
          /\ \A r \in 1..g.top : top_screen[r] = full_rgb[r]

\* a payload of 2 x 4 pixels behind a prefix that starts with 71 has been
\* decoded: the second pixel of the first row comes from bytes 5..8 of the
\* image, the top screen is the first two rows
C30_Witness ==
  /\ Len(full_rgb) = 4
  /\ Len(buf) > 32
  /\ buf[1] = 71
  /\ full_rgb[1][2] = <<8, 7, 6>>
  /\ full_rgb[2][1] = <<12, 11, 10>>
  /\ top_screen = <<full_rgb[1], full_rgb[2]>>


\* the entries of the frame history the visual-loop detector may look at: the
\* last LOOP_DETECTION_WINDOW of them, fewer while the history is shorter
RecentFrames ==
  SubSeq(frame_history,
         Max(1, Len(frame_history) - LOOP_DETECTION_WINDOW + 1),
         Len(frame_history))

\* how often the newest fingerprint is among them
NewestRepeats ==
  Cardinality({i \in 1..Len(RecentFrames) :
                 RecentFrames[i] = frame_history[Len(frame_history)]})

\* C22: once a fingerprint has been fed 3 times within the window, the
\* visual-loop detector returns a negative score, and when the newest
\* fingerprint has been fed only 2 times within the window it returns zero,
\* from any state of the detector, a fresh one included.
C22_VisualLoopScore ==
  (pc = "idle" /\ frame_history # <<>>) =>
    /\ NewestRepeats >= VISUAL_REPEATS => reward_parts.visual < 0
    /\ NewestRepeats = 2 => reward_parts.visual = 0

\* C23: a call of track_action that comes first after a reset returns no
\* penalty; a call whose action equals the ACTION_LOOP_THRESHOLD - 1 actions
\* before it returns exactly -0.2, however long the run already is; a call
\* whose action differs from the one before it returns 0.
C23_ActionLoopPenalty ==
  [][\A a \in ActionInputs :
       (frame_counter' = frame_counter + 1 /\ recent_actions' # <<>>
        /\ recent_actions'[Len(recent_actions')] = a) =>
         LET before == recent_actions
             T == ACTION_LOOP_THRESHOLD
         IN  /\ Len(before) < T - 1 => reward_parts'.action = 0
             /\ (/\ Len(before) >= T - 1
                 /\ \A i \in (Len(before) - T + 2)..Len(before) : before[i] = a)
                  => reward_parts'.action = -20
             /\ (before # <<>> /\ before[Len(before)] # a)
                  => reward_parts'.action = 0]_vars

\* the third call in a row with action 1 since the last reset has returned the
\* penalty
C23_Witness ==
  /\ frame_counter = 3
  /\ Len(frame_history) = 3
  /\ recent_actions = <<1, 1>>
  /\ reward_parts.action = -20

\* C24: a step in which the visual-loop penalty or the action-loop penalty is
\* returned increments the consecutive-loop counter and records the step index
\* as the last detection.
C24_EveryPenaltyCounts ==
  [][(reward_parts'.visual < 0 \/ reward_parts'.action < 0) =>
       /\ consecutive_loops' = consecutive_loops + 1
       /\ last_loop_detection' = frame_counter]_vars

C26_IdleCounter ==
  [][\A o \in ObsInputs, a \in ActionInputs :
       (o.move = "still" /\ DetectorsRun /\ EngineStep(o, a)) =>
         /\ steps_without_movement' = steps_without_movement + 1
         /\ reward_parts'.idle =
              IF steps_without_movement' <= MAX_STEPS_STILL THEN 0
              ELSE IF steps_without_movement' < MAX_STEPS_STILL + IDLE_SECOND_STAGE
                THEN -5 ELSE -10]_vars

\* C27: a step never takes a fingerprint out of the set of visited areas; the
\* exploration bonus is granted only for a fingerprint that is not in the set,
\* which the step then adds, and never for one that is; a reset empties the
\* set, and an overworld movement (the step that earns +0.2) on a fingerprint
\* that is not in the set always earns the bonus.
C27_ExplorationOnce ==
  [][/\ frame_counter' = frame_counter + 1 =>
          /\ visited_areas \subseteq visited_areas'
          /\ reward_parts'.exploration \in {0, 80}
          /\ reward_parts'.exploration = 80 =>
               /\ last_obs'[1].area \notin visited_areas
               /\ visited_areas' = visited_areas \cup {last_obs'[1].area}
          /\ last_obs'[1].area \in visited_areas => reward_parts'.exploration = 0
     /\ reset_obs' = "zeros" => visited_areas' = {}
     /\ (/\ frame_counter' = frame_counter + 1
         /\ reward_parts'.movement = 20
         /\ last_obs'[1].area \notin visited_areas) => reward_parts'.exploration = 80]_vars

\* two steps after a reset that followed three steps, the bonus has been
\* granted for fingerprint 0, the only one in the set
C27_Witness ==
  /\ frame_counter = 5
  /\ Len(frame_history) = 2
  /\ visited_areas = {0}
  /\ reward_parts.exploration = 80


\* C28: the battle bonus is part of a step's reward only if the step's frame is
\* battle-like and there is a frame before it that is not; it is never given
\* for a frame whose preceding frame is battle-like, the second frame after
\* construction or reset included.
C28_RisingEdge ==
  [][reward_parts'.battle > 0 =>
       /\ last_obs'[1].battle
       /\ last_obs # None
       /\ ~last_obs[1].battle]_vars

\* C29: in the scripted run the total reward of each of the frames
\* 1..IdenticalFrames is not positive, and the reward of frame
\* IdenticalFrames + 1 includes the transition bonus of +1.0.
C29_ScriptedRun ==
  /\ frame_counter \in 1..IdenticalFrames => Total(reward_parts) <= 0
  /\ frame_counter = IdenticalFrames + 1 => reward_parts.transition = 100


\* the largest number of times one fingerprint is among the entries the
\* visual-loop detector may look at
MaxRepeats ==
  CHOOSE m \in 0..LOOP_DETECTION_WINDOW :
    /\ \A i \in 1..Len(RecentFrames) :
         Cardinality({j \in 1..Len(RecentFrames) : RecentFrames[j] = RecentFrames[i]}) <= m
    /\ \/ m = 0 /\ RecentFrames = <<>>
       \/ \E i \in 1..Len(RecentFrames) :
            Cardinality({j \in 1..Len(RecentFrames) : RecentFrames[j] = RecentFrames[i]}) = m

\* the last four fingerprints are A, B, A, B with A # B
Alternating ==
  LET L == Len(frame_history)
  IN  /\ L >= 4
      /\ frame_history[L - 3] = frame_history[L - 1]
      /\ frame_history[L - 2] = frame_history[L]
      /\ frame_history[L - 3] # frame_history[L - 2]

C37_GraceKeepsCounter ==
  [][frame_counter' = frame_counter + 1 =>
       /\ (/\ reward_parts'.visual = 0
           /\ frame_counter - last_loop_detection <= LOOP_GRACE_FRAMES)
            => /\ consecutive_loops' = consecutive_loops
               /\ loop_penalty_escalation' = loop_penalty_escalation
               /\ last_loop_detection' = last_loop_detection
       /\ (reward_parts'.visual < 0 /\ reward_parts.visual = 0
           /\ frame_history # <<>>)
            => consecutive_loops' = consecutive_loops + 1]_vars

\* a detection, a loop-free step within the grace period, and a second
\* detection have left the counter at 2: the window holds two fingerprints
\* twice each before its newest entry makes three
C37_Witness ==
  /\ consecutive_loops = 2
  /\ reward_parts.visual < 0
  /\ last_loop_detection = frame_counter - 1
  /\ frame_counter = 6
  /\ Len(frame_history) = LOOP_DETECTION_WINDOW
  /\ frame_history[1] = frame_history[2]
  /\ frame_history[1] # frame_history[3]


C35_ErrorStepKeepsEngines ==
  [][<<engineVars, frame_counter>>' # <<engineVars, frame_counter>> =>
       /\ pc = "step_finish"
       /\ stepOps = <<"frame_read", "action_write">>
       /\ sent = action_bytes
       /\ pc' = "idle"
       /\ result' \notin {ReconnectedResult, FatalResult}
       /\ result'.obs = "top_screen"]_vars

\* after a step that scored a frame, a step whose frame was read but whose
\* action could not be written has returned the reconnected result
C35_Witness ==
  /\ pc = "idle"
  /\ result = ReconnectedResult
  /\ exc.reason = "send"
  /\ frame_counter = 1
  /\ last_obs # None


C33_StallTracking ==
  [][/\ UpdateMovementTracking =>
          detector_steps_without_movement' =
            IF movement_magnitude' < 5
              THEN detector_steps_without_movement + 1 ELSE 0
     /\ GetMovementPenalty =>
          movement_penalty' =
            IF detector_steps_without_movement > MOVEMENT_STAGES[3] THEN -80
            ELSE IF detector_steps_without_movement > MOVEMENT_STAGES[2] THEN -30
            ELSE IF detector_steps_without_movement > MOVEMENT_STAGES[1] THEN -10
            ELSE 0
     /\ frame_counter' # frame_counter =>
          UNCHANGED <<detector_steps_without_movement, movement_penalty>>]_vars

\* the counter has passed the last stage and come back to 0 on a magnitude of
\* exactly 0.5, with the heaviest penalty returned in between and frames in
\* the history
C33_Witness ==
  /\ movement_penalty = -80
  /\ movement_magnitude = 5
  /\ detector_steps_without_movement = 0
  /\ frame_history # <<>>


\* C36: after reset, every step fed the frame and the action of a step of a
\* freshly constructed environment is given the reward that step was given,
\* term by term, although the frame counter has gone on counting.
C36_ResetRestores ==
  /\ replay >= 1 => frame_counter >= Len(script) + replay - 1
  /\ replay >= 2 => reward_parts = script[replay - 1].reward

\* a run of MaxReplaySteps steps with an exploration bonus, a visual loop and
\* an escalation has been fed again in full after the reset
C36_Witness ==
  /\ Len(script) = MaxReplaySteps
  /\ replay = Len(script) + 1
  /\ frame_counter = 2 * MaxReplaySteps
  /\ \E i \in 1..Len(script) : script[i].reward.exploration > 0
  /\ script[Len(script)].reward.escalation < 0


\* the call has returned or raised
Ended(call) == call.pc \in {"returned", "raised"}

\* C39: given the same carry-over, the same socket events and the same moment
\* of the shutdown request, _recv_exact and receive_exact_bytes either both
\* raise or both return, and then the same bytes.
C39_ReadsAgree ==
  (Ended(recv_exact) /\ Ended(receive_exact_bytes)) =>
    /\ recv_exact.pc = receive_exact_bytes.pc
    /\ recv_exact.pc = "returned" => recv_exact.buf = receive_exact_bytes.buf


\* a step hands its result to its caller
StepReturns == pc # "idle" /\ pc' = "idle" /\ result' # NoResult

\* C38: once shutdown has been requested, a step that is running or is called
\* afterwards comes back to its caller, the retry loops having unwound, and
\* the result it returns has terminal = true.
C38_ShutdownStepTerminal ==
  /\ (shutdown_requested /\ Alive /\ pc # "idle")
       ~> (pc \in {"idle", "exited", "init_failed", "escaped"})
  /\ [][(shutdown_requested /\ StepReturns) => result'.done]_vars

====
